---- MODULE Spec2Model ----
(***************************************************************************)
(* Model of the stepflow execution engine: the resumable depth-first       *)
(* cursor (stepflow-session/src/dfs.rs), the step gating predicates        *)
(* (stepflow-step/src/step.rs), the state store (stepflow-data/src/        *)
(* statedata.rs) and the action-resolution loop of Session::advance        *)
(* (stepflow-session/src/session.rs).                                      *)
(*                                                                         *)
(* Option<T> values are sequences of length at most one: <<>> is None and  *)
(* <<x>> is Some(x).  Errors and gating outcomes are records with the      *)
(* fields k (enum variant), e (IdError variant) and id.                    *)
(***************************************************************************)
EXTENDS Integers, Sequences, FiniteSets, TLC

\* ------------------------------------------------------------------------
\* Bounds of the model
\* ------------------------------------------------------------------------
\* number of steps a flow definition adds below the session root
MaxSteps == 3

\* ------------------------------------------------------------------------
\* Identities
\* ------------------------------------------------------------------------
\* Session::with_capacity inserts the sentinel step first and the root second
\* into a fresh ObjectStore, whose identities count up from zero.
step_id_all == 0
step_id_root == 1

UserSteps == 2..(MaxSteps + 1)
StepIds == {step_id_all, step_id_root} \cup UserSteps
\* the variable identities of a flow and the values a variable can hold
VarIds == {1, 2}
Vals == {1, 2}

\* identities of the two actions a session registers: the step-specific one
\* is inserted first, the generic one second
specific_action_id == 0
generic_action_id == 1

\* ------------------------------------------------------------------------
\* Errors (stepflow-session/src/errors.rs, stepflow-base/src/errors.rs)
\* ------------------------------------------------------------------------
Ok == [k |-> "Ok", e |-> "", id |-> 0]
ErrVarId(e, v) == [k |-> "VarId", e |-> e, id |-> v]
ErrStepId(e, s) == [k |-> "StepId", e |-> e, id |-> s]
ErrActionId(e, a) == [k |-> "ActionId", e |-> e, id |-> a]
InvalidStateDataError == [k |-> "InvalidStateDataError", e |-> "", id |-> 0]
NoStateToEval == [k |-> "NoStateToEval", e |-> "", id |-> 0]
ErrOther == [k |-> "Other", e |-> "", id |-> 0]

VARIABLES
  \* ---- the session (Session struct) ----
  step_store,      \* StepId -> Step record
  actions,         \* HashMap<StepId, ActionId>
  action_store,    \* ActionId -> behaviour of the registered action
  state_data,      \* StateData: VarId -> value
  stack,           \* DepthFirstSearch.stack
  next_direction,  \* DepthFirstSearch.next_direction
  \* ---- one Session::advance call in progress ----
  state,           \* the `state` local of advance (States enum), or Idle
  step_output,     \* the `step_output` local of advance
  result,          \* what the last finished call returned
  \* ---- observation of the call in progress / last finished ----
  call,            \* what was true when the call started and what it did
  \* ---- the test harness of dfs.rs driving a bare cursor ----
  harness          \* fail_on_enter, fail_on_exit, failed flags, returned steps

vars == <<step_store, actions, action_store, state_data, stack, next_direction,
          state, step_output, result, call, harness>>

\* ------------------------------------------------------------------------
\* StateData (stepflow-data/src/statedata.rs)
\* ------------------------------------------------------------------------
StateData_new == << >>

contains(data, var_id) == var_id \in DOMAIN data

\* true when no identity of `data` lies outside `only`
contains_only(data, only) == \A var_id \in DOMAIN data : var_id \in only

\* merge_from gone wrong: an identity already present keeps its value
merge_from_keeps_existing(data, src) ==
  [k \in (DOMAIN data) \cup (DOMAIN src) |->
     IF k \in DOMAIN data THEN data[k] ELSE src[k]]

\* merge_from gone wrong: data is replaced by src
merge_from_replaces_all(data, src) == src

\* every (k, v) of src is inserted into data, replacing what was there
merge_from(data, src) ==
  [k \in (DOMAIN data) \cup (DOMAIN src) |->
     IF k \in DOMAIN src THEN src[k] ELSE data[k]]

\* every StateData over the model's variables and values
AllData == UNION {[D -> Vals] : D \in SUBSET VarIds}

\* the StateData a caller supplies holds the value 1 and the StateData an
\* action produces holds the value 2, so that an entry tells where it is from
CallerData == UNION {[D -> {1}] : D \in SUBSET VarIds}
ActionData == UNION {[D -> {2}] : D \in SUBSET VarIds}

\* StateData::get: the value under var_id, as an Option
StateData_get(data, var_id) ==
  IF var_id \in DOMAIN data THEN << data[var_id] >> ELSE << >>

\* ------------------------------------------------------------------------
\* StateDataFiltered (stepflow-data/src/statedata_filtered.rs): a StateData
\* seen through a set of allowed identities
\* ------------------------------------------------------------------------
StateDataFiltered_new(data, allowed_var_ids) ==
  [state_data |-> data, allowed_var_ids |-> allowed_var_ids]

StateDataFiltered_get(view, var_id) ==
  IF var_id \notin view.allowed_var_ids THEN << >>
  ELSE StateData_get(view.state_data, var_id)

StateDataFiltered_contains(view, var_id) ==
  IF var_id \notin view.allowed_var_ids THEN FALSE
  ELSE contains(view.state_data, var_id)

\* ------------------------------------------------------------------------
\* ObjectStore (stepflow-base/src/object_store.rs)
\*
\* A store is [id_to_object, name_to_id, next_id]; an object is [id, val].
\* A Result<TID, IdError<TID>> is [e, id, name]: e is "Ok" with the identity
\* in id, or the IdError variant with its identity in id or its string in
\* name.
\* ------------------------------------------------------------------------
\* next_id is an AtomicU32 and fetch_add wraps around at 2^32; the stores
\* of this model count modulo IdSpace, which stands for 2^32
IdSpace == 3

IdOk(id) == [e |-> "Ok", id |-> id, name |-> ""]
IdErr(e, id) == [e |-> e, id |-> id, name |-> ""]
NameErr(e, name) == [e |-> e, id |-> 0, name |-> name]

TestObject_new(id, val) == [id |-> id, val |-> val]

ObjectStore_new == [id_to_object |-> << >>, name_to_id |-> << >>, next_id |-> 0]

\* reserve_id: the identity handed out and the store afterwards
reserve_id(store) ==
  [id |-> store.next_id,
   store |-> [store EXCEPT !.next_id = (@ + 1) % IdSpace]]

\* register gone wrong: an object already stored is replaced
register_replaces(store, object) ==
  [res |-> IdOk(object.id),
   store |-> [store EXCEPT
                !.id_to_object =
                  [i \in (DOMAIN @) \cup {object.id} |->
                     IF i = object.id THEN object ELSE @[i]]]]

\* register: the Result and the store afterwards
register(store, object) ==
  IF object.id \in DOMAIN store.id_to_object
  THEN [res |-> IdErr("IdAlreadyExists", object.id), store |-> store]
  ELSE [res |-> IdOk(object.id),
        store |-> [store EXCEPT
                     !.id_to_object = (object.id :> object) @@ @]]

\* register_named gone wrong: a name already present is mapped again
register_named_renames(store, name, object) ==
  IF register(store, object).res.e # "Ok"
  THEN register(store, object)
  ELSE [res |-> register(store, object).res,
        store |-> [register(store, object).store EXCEPT
                     !.name_to_id =
                       [n \in (DOMAIN @) \cup {name} |->
                          IF n = name THEN object.id ELSE @[n]]]]

\* register_named gone wrong: the name is recorded before the object is
\* registered, and stays when the registration fails
register_named_names_first(store, name, object) ==
  IF name \in DOMAIN store.name_to_id
  THEN [res |-> NameErr("NameAlreadyExists", name), store |-> store]
  ELSE [res |-> register(store, object).res,
        store |-> [register(store, object).store EXCEPT
                     !.name_to_id = (name :> object.id) @@ @]]

register_named(store, name, object) ==
  IF name \in DOMAIN store.name_to_id
  THEN [res |-> NameErr("NameAlreadyExists", name), store |-> store]
  ELSE IF register(store, object).res.e # "Ok"
  THEN register(store, object)
  ELSE [res |-> register(store, object).res,
        store |-> [register(store, object).store EXCEPT
                     !.name_to_id = (name :> object.id) @@ @]]

\* the factory closures handed to insert_new: "UseId" builds the object
\* with the identity it is given, "OtherId" with the identity cb.id, "Fail"
\* returns Err(CannotParse("hi"))
cb_call(cb, id) ==
  CASE cb.k = "UseId" -> [ok |-> TRUE, object |-> TestObject_new(id, cb.val),
                          err |-> IdOk(id)]
    [] cb.k = "OtherId" -> [ok |-> TRUE, object |-> TestObject_new(cb.id, cb.val),
                            err |-> IdOk(id)]
    [] cb.k = "Fail" -> [ok |-> FALSE, object |-> TestObject_new(id, cb.val),
                         err |-> NameErr("CannotParse", "hi")]

\* insert_new gone wrong: the identity of the object made is not compared
\* with the identity reserved
insert_new_unguarded(store, cb) ==
  LET r == reserve_id(store)
      made == cb_call(cb, r.id)
  IN IF ~made.ok THEN [res |-> made.err, store |-> r.store]
     ELSE register(r.store, made.object)

insert_new(store, cb) ==
  LET r == reserve_id(store)
      made == cb_call(cb, r.id)
  IN IF ~made.ok THEN [res |-> made.err, store |-> r.store]
     ELSE IF made.object.id # r.id
     THEN [res |-> IdErr("IdNotReserved", made.object.id), store |-> r.store]
     ELSE register(r.store, made.object)

insert_new_named(store, name, cb) ==
  LET r == reserve_id(store)
      made == cb_call(cb, r.id)
  IN IF ~made.ok THEN [res |-> made.err, store |-> r.store]
     ELSE IF made.object.id # r.id
     THEN [res |-> IdErr("IdNotReserved", made.object.id), store |-> r.store]
     ELSE register_named(r.store, name, made.object)

\* the lookups, each an Option
id_from_name(store, name) ==
  IF name \in DOMAIN store.name_to_id THEN << store.name_to_id[name] >>
  ELSE << >>

\* name_from_id: the name of the first entry of name_to_id found with the
\* identity; which entry an iteration over a HashMap finds first is not
\* fixed, so this is the set of the Options it can return
name_from_id(store, id) ==
  IF \E n \in DOMAIN store.name_to_id : store.name_to_id[n] = id
  THEN {<< n >> : n \in {m \in DOMAIN store.name_to_id : store.name_to_id[m] = id}}
  ELSE {<< >>}

ObjectStore_get(store, id) ==
  IF id \in DOMAIN store.id_to_object THEN << store.id_to_object[id] >>
  ELSE << >>

get_by_name(store, name) ==
  IF id_from_name(store, name) = << >> THEN << >>
  ELSE ObjectStore_get(store, id_from_name(store, name)[1])

\* ------------------------------------------------------------------------
\* ObjectStoreFiltered (stepflow-base/src/object_store_filtered.rs)
\* ------------------------------------------------------------------------
ObjectStoreFiltered_new(object_store, allowed_ids) ==
  [object_store |-> object_store, allowed_ids |-> allowed_ids]

ObjectStoreFiltered_id_from_name(view, name) ==
  IF id_from_name(view.object_store, name) # << >>
     /\ id_from_name(view.object_store, name)[1] \in view.allowed_ids
  THEN id_from_name(view.object_store, name)
  ELSE << >>

ObjectStoreFiltered_name_from_id(view, id) ==
  IF id \notin view.allowed_ids THEN {<< >>}
  ELSE name_from_id(view.object_store, id)

ObjectStoreFiltered_get(view, id) ==
  IF id \notin view.allowed_ids THEN << >>
  ELSE ObjectStore_get(view.object_store, id)

\* get_by_name gone wrong: the name is looked up in the underlying store
\* without asking whether its identity is allowed
ObjectStoreFiltered_get_by_name_unfiltered(view, name) ==
  get_by_name(view.object_store, name)

ObjectStoreFiltered_get_by_name(view, name) ==
  IF ObjectStoreFiltered_id_from_name(view, name) = << >> THEN << >>
  ELSE ObjectStoreFiltered_get(view, ObjectStoreFiltered_id_from_name(view, name)[1])

\* ------------------------------------------------------------------------
\* Step (stepflow-step/src/step.rs)
\* ------------------------------------------------------------------------
Step_new(input_vars, output_vars) ==
  [input_vars |-> input_vars, output_vars |-> output_vars,
   substep_step_ids |-> << >>]

push_substep(step, substep_step_id) ==
  [step EXCEPT !.substep_step_ids = Append(@, substep_step_id)]

\* first_substep gone wrong: the last substep is taken for the first
first_substep_takes_last(step) ==
  IF Len(step.substep_step_ids) = 0 THEN << >>
  ELSE << step.substep_step_ids[Len(step.substep_step_ids)] >>

first_substep(step) ==
  IF Len(step.substep_step_ids) = 0 THEN << >>
  ELSE << step.substep_step_ids[1] >>

\* next_substep gone wrong: the scan stops one entry late and skips a sibling
next_substep_skips_one(step, prev_substep_id) ==
  LET subs == step.substep_step_ids
      at == {i \in 1..Len(subs) : subs[i] = prev_substep_id}
  IN IF at = {} THEN << >>
     ELSE LET i == CHOOSE j \in at : \A l \in at : j <= l
          IN IF i + 1 < Len(subs) THEN << subs[i + 2] >> ELSE << >>

\* the entry after the first occurrence of prev_substep_id
next_substep(step, prev_substep_id) ==
  LET subs == step.substep_step_ids
      at == {i \in 1..Len(subs) : subs[i] = prev_substep_id}
  IN IF at = {} THEN << >>
     ELSE LET i == CHOOSE j \in at : \A l \in at : j <= l
          IN IF i < Len(subs) THEN << subs[i + 1] >> ELSE << >>

\* first element of the sequence ids that is absent from data, as an Option
FirstMissing(ids, data) ==
  LET missing == {i \in 1..Len(ids) : ~contains(data, ids[i])}
  IN IF missing = {} THEN << >>
     ELSE << ids[CHOOSE j \in missing : \A l \in missing : j <= l] >>

\* can_enter gone wrong: the last absent input is reported
can_enter_reports_last(step, inputs) ==
  IF step.input_vars # << >> /\ FirstMissing(step.input_vars[1], inputs) # << >>
  THEN LET ids == step.input_vars[1]
           missing == {i \in 1..Len(ids) : ~contains(inputs, ids[i])}
       IN [k |-> "IdError", e |-> "IdMissing",
           id |-> ids[CHOOSE j \in missing : \A l \in missing : j >= l]]
  ELSE Ok

\* Ok, or IdMissing of the first required input absent from inputs
can_enter(step, inputs) ==
  IF step.input_vars # << >> /\ FirstMissing(step.input_vars[1], inputs) # << >>
  THEN [k |-> "IdError", e |-> "IdMissing",
        id |-> FirstMissing(step.input_vars[1], inputs)[1]]
  ELSE Ok

\* can_exit gone wrong: the outputs are looked at before the inputs
can_exit_outputs_first(step, data) ==
  IF FirstMissing(step.output_vars, data) # << >>
  THEN [k |-> "IdError", e |-> "IdMissing",
        id |-> FirstMissing(step.output_vars, data)[1]]
  ELSE can_enter(step, data)

\* can_enter first, then IdMissing of the first declared output absent
can_exit(step, data) ==
  IF can_enter(step, data).k # "Ok" THEN can_enter(step, data)
  ELSE IF FirstMissing(step.output_vars, data) # << >>
  THEN [k |-> "IdError", e |-> "IdMissing",
        id |-> FirstMissing(step.output_vars, data)[1]]
  ELSE Ok

\* ------------------------------------------------------------------------
\* DepthFirstSearch (stepflow-session/src/dfs.rs)
\*
\* The gating closures are passed as functions from step identity to Ok or
\* an error.  Every operator returns the new stack and the list of gating
\* checks it evaluated, in order.
\* ------------------------------------------------------------------------
DepthFirstSearch_new(root) == [stack |-> <<root>>, next_direction |-> "Down"]

current(st) == IF Len(st) = 0 THEN << >> ELSE << st[Len(st)] >>

Pop(st) == SubSeq(st, 1, Len(st) - 1)

next_sibling_of_current(st) ==
  IF Len(st) < 2 THEN << >>
  ELSE IF st[Len(st) - 1] \notin DOMAIN step_store THEN << >>
  ELSE next_substep(step_store[st[Len(st) - 1]], st[Len(st)])

first_child_of(step_id) ==
  IF step_id \notin DOMAIN step_store THEN << >>
  ELSE first_substep(step_store[step_id])

go_down(st, fn_can_enter) ==
  IF Len(st) = 0
  THEN [step |-> "NothingMoreInStack", stack |-> st, err |-> Ok, checks |-> << >>]
  ELSE LET first_child == first_child_of(st[Len(st)])
       IN IF first_child = << >>
          THEN [step |-> "NothingMoreDown", stack |-> st, err |-> Ok,
                checks |-> << >>]
          ELSE IF fn_can_enter[first_child[1]].k # "Ok"
          THEN [step |-> "CannotGoto", stack |-> st,
                err |-> fn_can_enter[first_child[1]],
                checks |-> << <<"enter", first_child[1]>> >>]
          ELSE [step |-> "DownTo", stack |-> Append(st, first_child[1]),
                err |-> Ok, checks |-> << <<"enter", first_child[1]>> >>]

\* go_sibling_or_up gone wrong: the sibling's entry check is evaluated
\* before the exit check of the current step
go_sibling_or_up_enters_first(st, fn_can_enter, fn_can_exit) ==
  IF Len(st) = 0
  THEN [step |-> "NothingMoreInStack", stack |-> st, err |-> Ok, checks |-> << >>]
  ELSE LET next_sibling == next_sibling_of_current(st)
       IN IF next_sibling # << >> /\ fn_can_enter[next_sibling[1]].k # "Ok"
          THEN [step |-> "CannotGoto", stack |-> st,
                err |-> fn_can_enter[next_sibling[1]],
                checks |-> << <<"enter", next_sibling[1]>> >>]
          ELSE IF fn_can_exit[st[Len(st)]].k # "Ok"
          THEN [step |-> "CannotLeaveForSibling", stack |-> st,
                err |-> fn_can_exit[st[Len(st)]],
                checks |-> (IF next_sibling # << >>
                            THEN << <<"enter", next_sibling[1]>> >> ELSE << >>)
                           \o << <<"exit", st[Len(st)]>> >>]
          ELSE IF next_sibling # << >>
          THEN [step |-> "SiblingTo",
                stack |-> Append(Pop(st), next_sibling[1]), err |-> Ok,
                checks |-> << <<"enter", next_sibling[1]>>,
                              <<"exit", st[Len(st)]>> >>]
          ELSE [step |-> "PoppedUp", stack |-> Pop(st), err |-> Ok,
                checks |-> << <<"exit", st[Len(st)]>> >>]

\* go_sibling_or_up gone wrong: the current step is popped before the
\* sibling's entry check, so a refused sibling is lost
go_sibling_or_up_pops_early(st, fn_can_enter, fn_can_exit) ==
  IF Len(st) = 0
  THEN [step |-> "NothingMoreInStack", stack |-> st, err |-> Ok, checks |-> << >>]
  ELSE IF fn_can_exit[st[Len(st)]].k # "Ok"
  THEN [step |-> "CannotLeaveForSibling", stack |-> st,
        err |-> fn_can_exit[st[Len(st)]],
        checks |-> << <<"exit", st[Len(st)]>> >>]
  ELSE LET next_sibling == next_sibling_of_current(st)
       IN IF next_sibling # << >>
          THEN IF fn_can_enter[next_sibling[1]].k # "Ok"
               THEN [step |-> "CannotGoto", stack |-> Pop(st),
                     err |-> fn_can_enter[next_sibling[1]],
                     checks |-> << <<"exit", st[Len(st)]>>,
                                   <<"enter", next_sibling[1]>> >>]
               ELSE [step |-> "SiblingTo",
                     stack |-> Append(Pop(st), next_sibling[1]),
                     err |-> Ok,
                     checks |-> << <<"exit", st[Len(st)]>>,
                                   <<"enter", next_sibling[1]>> >>]
          ELSE [step |-> "PoppedUp", stack |-> Pop(st), err |-> Ok,
                checks |-> << <<"exit", st[Len(st)]>> >>]

\* go_sibling_or_up gone wrong: the sibling is pushed on top of the step
\* that was left
go_sibling_or_up_keeps_current(st, fn_can_enter, fn_can_exit) ==
  IF Len(st) = 0
  THEN [step |-> "NothingMoreInStack", stack |-> st, err |-> Ok, checks |-> << >>]
  ELSE IF fn_can_exit[st[Len(st)]].k # "Ok"
  THEN [step |-> "CannotLeaveForSibling", stack |-> st,
        err |-> fn_can_exit[st[Len(st)]],
        checks |-> << <<"exit", st[Len(st)]>> >>]
  ELSE LET next_sibling == next_sibling_of_current(st)
       IN IF next_sibling # << >>
          THEN IF fn_can_enter[next_sibling[1]].k # "Ok"
               THEN [step |-> "CannotGoto", stack |-> st,
                     err |-> fn_can_enter[next_sibling[1]],
                     checks |-> << <<"exit", st[Len(st)]>>,
                                   <<"enter", next_sibling[1]>> >>]
               ELSE [step |-> "SiblingTo",
                     stack |-> Append(st, next_sibling[1]),
                     err |-> Ok,
                     checks |-> << <<"exit", st[Len(st)]>>,
                                   <<"enter", next_sibling[1]>> >>]
          ELSE [step |-> "PoppedUp", stack |-> Pop(st), err |-> Ok,
                checks |-> << <<"exit", st[Len(st)]>> >>]

go_sibling_or_up(st, fn_can_enter, fn_can_exit) ==
  IF Len(st) = 0
  THEN [step |-> "NothingMoreInStack", stack |-> st, err |-> Ok, checks |-> << >>]
  ELSE IF fn_can_exit[st[Len(st)]].k # "Ok"
  THEN [step |-> "CannotLeaveForSibling", stack |-> st,
        err |-> fn_can_exit[st[Len(st)]],
        checks |-> << <<"exit", st[Len(st)]>> >>]
  ELSE LET next_sibling == next_sibling_of_current(st)
       IN IF next_sibling # << >>
          THEN IF fn_can_enter[next_sibling[1]].k # "Ok"
               THEN [step |-> "CannotGoto", stack |-> st,
                     err |-> fn_can_enter[next_sibling[1]],
                     checks |-> << <<"exit", st[Len(st)]>>,
                                   <<"enter", next_sibling[1]>> >>]
               ELSE [step |-> "SiblingTo",
                     stack |-> Append(Pop(st), next_sibling[1]),
                     err |-> Ok,
                     checks |-> << <<"exit", st[Len(st)]>>,
                                   <<"enter", next_sibling[1]>> >>]
          ELSE [step |-> "PoppedUp", stack |-> Pop(st), err |-> Ok,
                checks |-> << <<"exit", st[Len(st)]>> >>]

\* the while loop of next(): one iteration per unfolding.  next_loop_match
\* is the match on the step result, next_loop the iteration that computes
\* the step result once and hands it to the match.
RECURSIVE next_loop(_, _, _, _, _)
\* the match of next gone wrong: the cursor returns the first step it goes
\* down to
next_loop_match_stops_at_child(step_result, dir, checks, fn_can_enter, fn_can_exit) ==
  CASE step_result.step = "SiblingTo" ->
         next_loop(step_result.stack, "Down", checks \o step_result.checks,
                   fn_can_enter, fn_can_exit)
    [] step_result.step \in {"DownTo", "NothingMoreDown"} ->
         [stack |-> step_result.stack, next_direction |-> "SiblingOrUp",
          err |-> Ok, checks |-> checks \o step_result.checks]
    [] step_result.step = "PoppedUp" ->
         next_loop(step_result.stack, "SiblingOrUp",
                   checks \o step_result.checks, fn_can_enter, fn_can_exit)
    [] step_result.step \in {"CannotGoto", "CannotLeaveForSibling"} ->
         [stack |-> step_result.stack, next_direction |-> dir,
          err |-> step_result.err, checks |-> checks \o step_result.checks]
    [] step_result.step = "NothingMoreInStack" ->
         [stack |-> step_result.stack, next_direction |-> "Done", err |-> Ok,
          checks |-> checks \o step_result.checks]

\* the match of next gone wrong: after a failed check the direction is
\* SiblingOrUp whatever it was
next_loop_match_turns_on_error(step_result, dir, checks, fn_can_enter, fn_can_exit) ==
  CASE step_result.step \in {"DownTo", "SiblingTo"} ->
         next_loop(step_result.stack, "Down", checks \o step_result.checks,
                   fn_can_enter, fn_can_exit)
    [] step_result.step = "NothingMoreDown" ->
         [stack |-> step_result.stack, next_direction |-> "SiblingOrUp",
          err |-> Ok, checks |-> checks \o step_result.checks]
    [] step_result.step = "PoppedUp" ->
         next_loop(step_result.stack, "SiblingOrUp",
                   checks \o step_result.checks, fn_can_enter, fn_can_exit)
    [] step_result.step \in {"CannotGoto", "CannotLeaveForSibling"} ->
         [stack |-> step_result.stack, next_direction |-> "SiblingOrUp",
          err |-> step_result.err, checks |-> checks \o step_result.checks]
    [] step_result.step = "NothingMoreInStack" ->
         [stack |-> step_result.stack, next_direction |-> "Done", err |-> Ok,
          checks |-> checks \o step_result.checks]

next_loop_match(step_result, dir, checks, fn_can_enter, fn_can_exit) ==
  CASE step_result.step \in {"DownTo", "SiblingTo"} ->
         next_loop(step_result.stack, "Down", checks \o step_result.checks,
                   fn_can_enter, fn_can_exit)
    [] step_result.step = "NothingMoreDown" ->
         [stack |-> step_result.stack, next_direction |-> "SiblingOrUp",
          err |-> Ok, checks |-> checks \o step_result.checks]
    [] step_result.step = "PoppedUp" ->
         next_loop(step_result.stack, "SiblingOrUp",
                   checks \o step_result.checks, fn_can_enter, fn_can_exit)
    [] step_result.step \in {"CannotGoto", "CannotLeaveForSibling"} ->
         [stack |-> step_result.stack, next_direction |-> dir,
          err |-> step_result.err, checks |-> checks \o step_result.checks]
    [] step_result.step = "NothingMoreInStack" ->
         [stack |-> step_result.stack, next_direction |-> "Done", err |-> Ok,
          checks |-> checks \o step_result.checks]

next_loop(st, dir, checks, fn_can_enter, fn_can_exit) ==
  CHOOSE r \in
    {next_loop_match(step_result, d, c, fn_can_enter, fn_can_exit) :
       step_result \in
         {CASE dir = "Down" -> go_down(st, fn_can_enter)
            [] dir = "SiblingOrUp" ->
                 go_sibling_or_up(st, fn_can_enter, fn_can_exit)
            [] dir = "Done" -> [step |-> "NothingMoreInStack", stack |-> st,
                                err |-> Ok, checks |-> << >>]},
       d \in {dir}, c \in {checks}} : TRUE

\* the value next() returns for the outcome r of its loop
next_result(r) ==
  [stack |-> r.stack, next_direction |-> r.next_direction,
   checks |-> r.checks,
   res |-> IF r.err.k # "Ok" THEN "Err"
           ELSE IF r.next_direction = "Done" THEN "None"
           ELSE IF Len(r.stack) = 0 THEN "Err" ELSE "Some",
   err |-> IF r.err.k # "Ok" THEN r.err
           ELSE IF r.next_direction # "Done" /\ Len(r.stack) = 0
           THEN NoStateToEval ELSE Ok,
   step |-> IF r.err.k = "Ok" /\ r.next_direction # "Done"
            THEN current(r.stack) ELSE << >>]

\* next gone wrong: the Done direction is not told apart from a missing
\* current step, so exhaustion is reported as NoStateToEval
next_without_done(st, dir, fn_can_enter, fn_can_exit) ==
  LET r == next_loop(st, dir, << >>, fn_can_enter, fn_can_exit)
  IN [stack |-> r.stack, next_direction |-> r.next_direction,
      checks |-> r.checks,
      res |-> IF r.err.k # "Ok" THEN "Err"
              ELSE IF Len(r.stack) = 0 THEN "Err" ELSE "Some",
      err |-> IF r.err.k # "Ok" THEN r.err
              ELSE IF Len(r.stack) = 0 THEN NoStateToEval ELSE Ok,
      step |-> IF r.err.k = "Ok" THEN current(r.stack) ELSE << >>]

\* DepthFirstSearch::next: the new stack and direction, the gating checks
\* evaluated, and the returned value: res is "Err" (with err), "None" for
\* Ok(None) or "Some" for Ok(Some(step)).
next(st, dir, fn_can_enter, fn_can_exit) ==
  CHOOSE n \in
    {next_result(r) :
       r \in {next_loop(st, dir, << >>, fn_can_enter, fn_can_exit)}} : TRUE

\* ------------------------------------------------------------------------
\* Actions (stepflow-action/src/action.rs, stepflow-session/src/test/
\* action_test.rs)
\*
\* An ActionResult or ActionError is a record [k, e, id]; for Finished the
\* field `data` holds the StateData.
\* ------------------------------------------------------------------------
StartWith(val) == [k |-> "StartWith", e |-> val, id |-> 0, data |-> << >>]
Finished(data) == [k |-> "Finished", e |-> "", id |-> 0, data |-> data]
CannotFulfill == [k |-> "CannotFulfill", e |-> "", id |-> 0, data |-> << >>]
ActionErr(err) == [k |-> "Err", e |-> err.k, id |-> err.id, data |-> << >>]

\* TestAction::start: StartWith(TrueValue) when return_start_with, else
\* Finished with an empty StateData
TestAction_start(return_start_with) ==
  IF return_start_with THEN StartWith("TrueValue")
  ELSE Finished(StateData_new)

\* what Action::start of the action registered with behaviour `kind` may
\* return: the two TestAction flavours are deterministic, "Any" stands for
\* an arbitrary implementation of the Action trait
Action_start(kind) ==
  CASE kind = "StartWith" -> {TestAction_start(TRUE)}
    [] kind = "Finished" -> {TestAction_start(FALSE)}
    [] kind = "Any" -> {StartWith("AnyValue"), CannotFulfill, ActionErr(ErrOther)}
                         \cup {Finished(d) : d \in ActionData}

ActionKinds == {"StartWith", "Finished", "Any"}

\* impl From<ActionError> for Error
Error_from(action_result) ==
  [k |-> action_result.e, e |-> "", id |-> action_result.id]

\* ------------------------------------------------------------------------
\* Session (stepflow-session/src/session.rs)
\* ------------------------------------------------------------------------
\* AdvanceBlockedOn values and the value of `result` before any call returned
ActionStartWith(action_id, val) == [k |-> "ActionStartWith", e |-> val, id |-> action_id]
ActionCannotFulfill == [k |-> "ActionCannotFulfill", e |-> "", id |-> 0]
FinishedAdvancing == [k |-> "FinishedAdvancing", e |-> "", id |-> 0]
NoResult == [k |-> "NoResult", e |-> "", id |-> 0]

IsOkResult(r) == r.k \in {"ActionStartWith", "ActionCannotFulfill", "FinishedAdvancing"}
IsErrResult(r) == r.k \notin {"ActionStartWith", "ActionCannotFulfill",
                              "FinishedAdvancing", "NoResult"}

\* Session::current_step: the top of the cursor's stack
current_step == current(stack)

\* the closures try_enter_next_step hands to the cursor, reading `data`
fn_can_enter(data) ==
  [step_id \in StepIds |->
     IF step_id \notin DOMAIN step_store THEN ErrStepId("IdMissing", step_id)
     ELSE IF can_enter(step_store[step_id], data).k # "Ok"
     THEN ErrVarId(can_enter(step_store[step_id], data).e,
                   can_enter(step_store[step_id], data).id)
     ELSE Ok]

fn_can_exit(data) ==
  [step_id \in StepIds |->
     IF step_id \notin DOMAIN step_store THEN ErrStepId("IdMissing", step_id)
     ELSE IF can_exit(step_store[step_id], data).k # "Ok"
     THEN ErrVarId(can_exit(step_store[step_id], data).e,
                   can_exit(step_store[step_id], data).id)
     ELSE Ok]

\* try_enter_next_step gone wrong: the cursor is asked first, against the
\* StateData without the supplied output, and the output is merged only when
\* the cursor did not fail
try_enter_next_step_gates_first(out) ==
  IF out # << >> /\ current_step = << >>
  THEN [state_data |-> state_data, stack |-> stack,
        next_direction |-> next_direction, res |-> "Err",
        err |-> NoStateToEval, step |-> << >>, checks |-> << >>, seen |-> << >>]
  ELSE IF out # << >> /\ current_step[1] # out[1].step_id
  THEN [state_data |-> state_data, stack |-> stack,
        next_direction |-> next_direction, res |-> "Err",
        err |-> ErrStepId("IdUnexpected", out[1].step_id), step |-> << >>,
        checks |-> << >>, seen |-> << >>]
  ELSE LET n == next(stack, next_direction, fn_can_enter(state_data),
                     fn_can_exit(state_data))
       IN [state_data |-> IF out # << >> /\ n.res # "Err"
                          THEN merge_from(state_data, out[1].data)
                          ELSE state_data,
           stack |-> n.stack,
           next_direction |-> n.next_direction, res |-> n.res, err |-> n.err,
           step |-> n.step, checks |-> n.checks, seen |-> << state_data >>]

\* Session::try_enter_next_step.  out is the Option<(StepId, StateData)>.
\* Returns the new StateData and cursor, the returned value (res, err, step
\* as for next), the gating checks evaluated and, in `seen`, the StateData
\* the gating closures read (an Option: none when the cursor was not called).
try_enter_next_step(out) ==
  IF out # << >> /\ current_step = << >>
  THEN [state_data |-> state_data, stack |-> stack,
        next_direction |-> next_direction, res |-> "Err",
        err |-> NoStateToEval, step |-> << >>, checks |-> << >>, seen |-> << >>]
  ELSE IF out # << >> /\ current_step[1] # out[1].step_id
  THEN [state_data |-> state_data, stack |-> stack,
        next_direction |-> next_direction, res |-> "Err",
        err |-> ErrStepId("IdUnexpected", out[1].step_id), step |-> << >>,
        checks |-> << >>, seen |-> << >>]
  ELSE CHOOSE t \in
         {[state_data |-> merged, stack |-> n.stack,
           next_direction |-> n.next_direction, res |-> n.res, err |-> n.err,
           step |-> n.step, checks |-> n.checks, seen |-> << merged >>] :
            merged \in {IF out # << >> THEN merge_from(state_data, out[1].data)
                        ELSE state_data},
            n \in {next(stack, next_direction,
                        fn_can_enter(IF out # << >>
                                     THEN merge_from(state_data, out[1].data)
                                     ELSE state_data),
                        fn_can_exit(IF out # << >>
                                    THEN merge_from(state_data, out[1].data)
                                    ELSE state_data))}} : TRUE

\* get_step_input_output_vars of call_action: the identities the views allow
\* get_step_input_output_vars gone wrong: every variable of the session is
\* allowed
get_step_input_output_vars_everything(step) == VarIds

get_step_input_output_vars(step) ==
  {(IF step.input_vars = << >> THEN << >> ELSE step.input_vars[1])[i] :
     i \in 1..Len(IF step.input_vars = << >> THEN << >> ELSE step.input_vars[1])}
  \cup {step.output_vars[i] : i \in 1..Len(step.output_vars)}

\* the Vars of the session: one StringVar per identity, registered by name
Session_var_store ==
  register_named(
    register_named(ObjectStore_new, "var1", TestObject_new(1, "StringVar")).store,
    "var2", TestObject_new(2, "StringVar")).store

\* the views call_action builds for the action's start
call_action_step_data(step_id) ==
  StateDataFiltered_new(state_data,
                        get_step_input_output_vars(step_store[step_id]))

call_action_vars(step_id) ==
  ObjectStoreFiltered_new(Session_var_store,
                          get_step_input_output_vars(step_store[step_id]))

\* call_action gone wrong: Finished data is not checked against the outputs
\* of the step and the error of an action is taken for CannotFulfill
call_action_forgiving(action_id, step_id, action_result) ==
  IF step_id \notin DOMAIN step_store
  THEN [ok |-> FALSE, err |-> ErrStepId("IdMissing", step_id),
        action_result |-> CannotFulfill]
  ELSE IF action_id \notin DOMAIN action_store
  THEN [ok |-> FALSE, err |-> ErrActionId("IdMissing", action_id),
        action_result |-> CannotFulfill]
  ELSE IF action_result.k = "Err"
  THEN [ok |-> TRUE, err |-> Ok, action_result |-> CannotFulfill]
  ELSE [ok |-> TRUE, err |-> Ok, action_result |-> action_result]

\* call_action gone wrong: an action identity missing from the action store
\* counts as an action that cannot fulfill
call_action_missing_cannot_fulfill(action_id, step_id, action_result) ==
  IF step_id \notin DOMAIN step_store
  THEN [ok |-> FALSE, err |-> ErrStepId("IdMissing", step_id),
        action_result |-> CannotFulfill]
  ELSE IF action_id \notin DOMAIN action_store
  THEN [ok |-> TRUE, err |-> Ok, action_result |-> CannotFulfill]
  ELSE IF action_result.k = "Err"
  THEN [ok |-> FALSE, err |-> Error_from(action_result),
        action_result |-> CannotFulfill]
  ELSE IF action_result.k = "Finished"
          /\ ~contains_only(action_result.data,
                            {step_store[step_id].output_vars[i] :
                               i \in 1..Len(step_store[step_id].output_vars)})
  THEN [ok |-> FALSE, err |-> InvalidStateDataError,
        action_result |-> CannotFulfill]
  ELSE [ok |-> TRUE, err |-> Ok, action_result |-> action_result]

\* Session::call_action once the action's start has returned action_result:
\* the Result handed back to advance, as [ok, err, action_result]
call_action(action_id, step_id, action_result) ==
  IF step_id \notin DOMAIN step_store
  THEN [ok |-> FALSE, err |-> ErrStepId("IdMissing", step_id),
        action_result |-> CannotFulfill]
  ELSE IF action_id \notin DOMAIN action_store
  THEN [ok |-> FALSE, err |-> ErrActionId("IdMissing", action_id),
        action_result |-> CannotFulfill]
  ELSE IF action_result.k = "Err"
  THEN [ok |-> FALSE, err |-> Error_from(action_result),
        action_result |-> CannotFulfill]
  ELSE IF action_result.k = "Finished"
          /\ ~contains_only(action_result.data,
                            {step_store[step_id].output_vars[i] :
                               i \in 1..Len(step_store[step_id].output_vars)})
  THEN [ok |-> FALSE, err |-> InvalidStateDataError,
        action_result |-> CannotFulfill]
  ELSE [ok |-> TRUE, err |-> Ok, action_result |-> action_result]

\* the results the action's start may produce when call_action reaches it
call_action_results(action_id, step_id) ==
  IF step_id \in DOMAIN step_store /\ action_id \in DOMAIN action_store
  THEN Action_start(action_store[action_id])
  ELSE {CannotFulfill}

\* values of the `state` local of advance (enum States); Idle: no call runs
St(tag, step_id, action_id, error) ==
  [tag |-> tag, step_id |-> step_id, action_id |-> action_id, error |-> error]
Idle == St("Idle", << >>, << >>, Ok)
AdvanceStep == St("AdvanceStep", << >>, << >>, Ok)
Done(res) == St("Done", << >>, << >>, res)
\* an early return (`?` or `return Err`) leaves the loop with this result
Return(res) == St("Return", << >>, << >>, res)

\* the AdvanceStep arm gone wrong: after a failed cursor call the action is
\* resolved for the step of the check that failed
arm_AdvanceStep_step_of_check(t) ==
  IF t.res = "Some" THEN St("GetSpecificAction", t.step, << >>, Ok)
  ELSE IF t.res = "None" THEN Done(FinishedAdvancing)
  ELSE IF current(t.stack) = << >> THEN Return(NoStateToEval)
  ELSE IF t.checks = << >>
  THEN St("GetSpecificAction", current(t.stack), << >>, t.err)
  ELSE St("GetSpecificAction", << t.checks[Len(t.checks)][2] >>, << >>, t.err)

\* States::AdvanceStep arm, given what try_enter_next_step returned (t) and
\* the top of the stack afterwards
arm_AdvanceStep(t) ==
  IF t.res = "Some" THEN St("GetSpecificAction", t.step, << >>, Ok)
  ELSE IF t.res = "None" THEN Done(FinishedAdvancing)
  ELSE IF current(t.stack) = << >> THEN Return(NoStateToEval)
  ELSE St("GetSpecificAction", current(t.stack), << >>, t.err)

\* GetSpecificAction gone wrong: the step's own action is never looked up
arm_GetSpecificAction_skipped(step_id, error) ==
  St("GetGenericAction", step_id, << >>, error)

\* States::GetSpecificAction arm
arm_GetSpecificAction(step_id, error) ==
  IF step_id[1] \in DOMAIN actions
  THEN St("StartSpecific", step_id, << actions[step_id[1]] >>, error)
  ELSE St("GetGenericAction", step_id, << >>, error)

\* GetGenericAction gone wrong: without a generic action the carried error
\* is replaced by ActionCannotFulfill
arm_GetGenericAction_drops_error(step_id, error) ==
  IF step_id_all \in DOMAIN actions
  THEN St("StartGeneric", step_id, << actions[step_id_all] >>, error)
  ELSE IF error.k = "Ok" THEN AdvanceStep
  ELSE Done(ActionCannotFulfill)

\* GetGenericAction gone wrong: without a generic action the call gives up
arm_GetGenericAction_gives_up(step_id, error) ==
  IF step_id_all \in DOMAIN actions
  THEN St("StartGeneric", step_id, << actions[step_id_all] >>, error)
  ELSE Done(ActionCannotFulfill)

\* GetGenericAction gone wrong: without a generic action the cursor is
\* always tried again
arm_GetGenericAction_retries(step_id, error) ==
  IF step_id_all \in DOMAIN actions
  THEN St("StartGeneric", step_id, << actions[step_id_all] >>, error)
  ELSE AdvanceStep

\* States::GetGenericAction arm
arm_GetGenericAction(step_id, error) ==
  IF step_id_all \in DOMAIN actions
  THEN St("StartGeneric", step_id, << actions[step_id_all] >>, error)
  ELSE IF error.k = "Ok" THEN AdvanceStep
  ELSE Return(error)

\* the Start arm gone wrong: a Finished result ends the call instead of
\* going back to AdvanceStep
arm_Start_stops_on_finished(tag, action_id, step_id, error_opt, c) ==
  IF ~c.ok THEN Return(c.err)
  ELSE IF c.action_result.k = "StartWith"
  THEN Done(ActionStartWith(action_id[1], c.action_result.e))
  ELSE IF c.action_result.k = "Finished" THEN Done(FinishedAdvancing)
  ELSE IF tag = "StartSpecific"
  THEN St("GetGenericAction", step_id, << >>, error_opt)
  ELSE Done(ActionCannotFulfill)

\* the Start arm gone wrong: CannotFulfill of the specific action ends the
\* call
arm_Start_no_fallback(tag, action_id, step_id, error_opt, c) ==
  IF ~c.ok THEN Return(c.err)
  ELSE IF c.action_result.k = "StartWith"
  THEN Done(ActionStartWith(action_id[1], c.action_result.e))
  ELSE IF c.action_result.k = "Finished" THEN AdvanceStep
  ELSE Done(ActionCannotFulfill)

\* the Start arm gone wrong: StartWith reports a carried gating error
arm_Start_reports_gating_error(tag, action_id, step_id, error_opt, c) ==
  IF ~c.ok THEN Return(c.err)
  ELSE IF c.action_result.k = "StartWith"
  THEN IF error_opt.k # "Ok" THEN Return(error_opt)
       ELSE Done(ActionStartWith(action_id[1], c.action_result.e))
  ELSE IF c.action_result.k = "Finished" THEN AdvanceStep
  ELSE IF tag = "StartSpecific"
  THEN St("GetGenericAction", step_id, << >>, error_opt)
  ELSE Done(ActionCannotFulfill)

\* States::StartSpecific | States::StartGeneric arm, given what call_action
\* returned (c)
arm_Start(tag, action_id, step_id, error_opt, c) ==
  IF ~c.ok THEN Return(c.err)
  ELSE IF c.action_result.k = "StartWith"
  THEN Done(ActionStartWith(action_id[1], c.action_result.e))
  ELSE IF c.action_result.k = "Finished" THEN AdvanceStep
  ELSE IF tag = "StartSpecific"
  THEN St("GetGenericAction", step_id, << >>, error_opt)
  ELSE Done(ActionCannotFulfill)

\* the Start arm gone wrong: Finished data is not merged
arm_Start_state_data_dropped(c) == state_data

\* the StateData after the Start arm: Finished data is merged
arm_Start_state_data(c) ==
  IF c.ok /\ c.action_result.k = "Finished"
  THEN merge_from(state_data, c.action_result.data)
  ELSE state_data

\* ------------------------------------------------------------------------
\* Flow definitions: the step trees, gating declarations and action
\* registrations a session is set up with before it is advanced
\* ------------------------------------------------------------------------
\* what a step may declare: no gating, or an optional required input and
\* some required outputs
NoGate == [input_vars |-> << >>, output_vars |-> << >>]
GateChoices ==
  {NoGate,
   [input_vars |-> << >>, output_vars |-> <<1, 2>>],
   [input_vars |-> << <<1>> >>, output_vars |-> << >>],
   [input_vars |-> << <<1>> >>, output_vars |-> <<2>>]}

\* Session::with_capacity: the sentinel and the root step, neither gated
Session_step_store ==
  (step_id_all :> Step_new(<< >>, << >>)) @@ (step_id_root :> Step_new(<< >>, << >>))

\* steps first..last are inserted in identity order (step_store.insert_new)
\* and each is pushed below its parent (push_substep / push_root_substep)
RECURSIVE AddSteps(_, _, _, _, _)
AddSteps(store, first, last, parent, gate) ==
  IF first > last THEN store
  ELSE AddSteps(
         [s \in (DOMAIN store) \cup {first} |->
            IF s = first
            THEN Step_new(gate[first].input_vars, gate[first].output_vars)
            ELSE IF s = parent[first] THEN push_substep(store[s], first)
            ELSE store[s]],
         first + 1, last, parent, gate)

\* every parent assignment for n steps below the root: a step's parent is the
\* root or a step inserted before it
Parents(n) ==
  {p \in [2..(n + 1) -> 1..(n + 1)] : \A s \in 2..(n + 1) : p[s] < s}

\* the gating declarations of n steps, at most one of them gated
Gates(n) ==
  {g \in [2..(n + 1) -> GateChoices] :
     \A s, t \in 2..(n + 1) : (g[s] # NoGate /\ g[t] # NoGate) => s = t}

\* the registrations made with set_action_for_step: at most one
\* step-specific action (for a step below the root) and at most one generic
\* action
ActionSetups(n) ==
  {[specific |-> << >>, generic |-> ge] :
     ge \in {<< >>} \cup {<< k >> : k \in ActionKinds}}
  \cup
  {[specific |-> << <<s, "Any">> >>, generic |-> ge] :
     s \in 2..(n + 1), ge \in {<< >>, << "Any" >>}}

\* set_action_for_step gone wrong: a second registration replaces the first
set_action_for_step_overwrites(m, action_id, step_id) ==
  LET step_id_use == IF step_id = << >> THEN step_id_all ELSE step_id[1]
  IN [s \in (DOMAIN m) \cup {step_id_use} |->
        IF s = step_id_use THEN action_id ELSE m[s]]

\* the Result of Session::set_action_for_step on the map m
set_action_for_step_result(m, action_id, step_id) ==
  LET step_id_use == IF step_id = << >> THEN step_id_all ELSE step_id[1]
  IN IF step_id_use \in DOMAIN m
     THEN ErrStepId("IdAlreadyExists", step_id_use)
     ELSE Ok

\* Session::set_action_for_step on the map m; the map is left alone when
\* the step already has an action
set_action_for_step(m, action_id, step_id) ==
  LET step_id_use == IF step_id = << >> THEN step_id_all ELSE step_id[1]
  IN IF step_id_use \in DOMAIN m THEN m
     ELSE (step_id_use :> action_id) @@ m

Setup_actions(a) ==
  LET m1 == IF a.specific = << >> THEN << >>
            ELSE set_action_for_step(<< >>, specific_action_id,
                                     << a.specific[1][1] >>)
  IN IF a.generic = << >> THEN m1
     ELSE set_action_for_step(m1, generic_action_id, << >>)

Setup_action_store(a) ==
  (IF a.specific = << >> THEN << >>
   ELSE (specific_action_id :> a.specific[1][2]))
  @@ (IF a.generic = << >> THEN << >>
      ELSE (generic_action_id :> a.generic[1]))

\* ------------------------------------------------------------------------
\* Observation of one advance call (not program state)
\* ------------------------------------------------------------------------
NoHarness == [on |-> FALSE]

\* the record kept in `call` when a call starts
CallStart(out) ==
  [arg |-> out,                 \* the step_output argument
   data0 |-> state_data,        \* StateData when the call started
   stack0 |-> stack,            \* the cursor when the call started
   dir0 |-> next_direction,
   seen |-> << >>,              \* StateData read by the first cursor call
   checks |-> {},               \* gating checks evaluated during the call
   gate_err |-> Ok,             \* error of the last cursor call, or Ok
   failed |-> << >>,            \* the check the last cursor call failed on
   invoked |-> {},              \* <<action, step>> pairs started
   last_action |-> << >>,       \* last action started since the last AdvanceStep
   action_keys |-> {}]          \* identities merged from Finished results

NoCall ==
  [arg |-> << >>, data0 |-> StateData_new, stack0 |-> <<step_id_root>>,
   dir0 |-> "Down", seen |-> << >>, checks |-> {}, gate_err |-> Ok,
   failed |-> << >>, invoked |-> {}, last_action |-> << >>, action_keys |-> {}]

SeqToSet(q) == {q[i] : i \in 1..Len(q)}

\* ------------------------------------------------------------------------
\* The session specification
\* ------------------------------------------------------------------------
\* Session::new followed by the flow definition
Init ==
  \E n \in 0..MaxSteps :
    \E p \in Parents(n), g \in Gates(n), a \in ActionSetups(n) :
      /\ step_store = AddSteps(Session_step_store, 2, n + 1, p, g)
      /\ actions = Setup_actions(a)
      /\ action_store = Setup_action_store(a)
      /\ state_data = StateData_new
      /\ stack = DepthFirstSearch_new(step_id_root).stack
      /\ next_direction = DepthFirstSearch_new(step_id_root).next_direction
      /\ state = Idle
      /\ step_output = << >>
      /\ result = NoResult
      /\ call = NoCall
      /\ harness = NoHarness

\* a caller calls Session::advance(out)
Advance(out) ==
  /\ state.tag = "Idle"
  /\ state' = AdvanceStep
  /\ step_output' = out
  /\ call' = CallStart(out)
  /\ result' = NoResult
  /\ UNCHANGED <<step_store, actions, action_store, state_data, stack,
                 next_direction, harness>>

AdvanceNone == Advance(<< >>)

\* the outputs a caller supplies: any StateData naming the current step, or
\* the StateData holding every variable naming the sentinel or the root when
\* that is not the current step
FullData == [v \in VarIds |-> 1]

AdvanceSome ==
  \E s \in DOMAIN step_store, d \in CallerData :
    /\ current_step # <<s>> => (d = FullData /\ s \in {step_id_all, step_id_root})
    /\ Advance(<< [step_id |-> s, data |-> d] >>)

\* loop iteration in States::AdvanceStep
LoopAdvanceStep ==
  /\ state.tag = "AdvanceStep"
  /\ \E t \in {try_enter_next_step(step_output)} :
        /\ state_data' = t.state_data
        /\ stack' = t.stack
        /\ next_direction' = t.next_direction
        /\ step_output' = << >>
        /\ state' = arm_AdvanceStep(t)
        /\ call' = [call EXCEPT
                      !.seen = IF @ = << >> THEN t.seen ELSE @,
                      !.checks = @ \cup SeqToSet(t.checks),
                      !.gate_err = t.err,
                      !.failed = IF t.err.k # "Ok" /\ t.checks # << >>
                                 THEN << t.checks[Len(t.checks)] >>
                                 ELSE << >>,
                      !.last_action = << >>]
  /\ UNCHANGED <<step_store, actions, action_store, result, harness>>

\* loop iteration in States::GetSpecificAction
LoopGetSpecificAction ==
  /\ state.tag = "GetSpecificAction"
  /\ state' = arm_GetSpecificAction(state.step_id, state.error)
  /\ UNCHANGED <<step_store, actions, action_store, state_data, stack,
                 next_direction, step_output, result, call, harness>>

\* loop iteration in States::GetGenericAction
LoopGetGenericAction ==
  /\ state.tag = "GetGenericAction"
  /\ state' = arm_GetGenericAction(state.step_id, state.error)
  /\ UNCHANGED <<step_store, actions, action_store, state_data, stack,
                 next_direction, step_output, result, call, harness>>

\* loop iteration in States::StartSpecific or States::StartGeneric
LoopStart ==
  /\ state.tag \in {"StartSpecific", "StartGeneric"}
  /\ \E action_result \in call_action_results(state.action_id[1], state.step_id[1]) :
       LET c == call_action(state.action_id[1], state.step_id[1], action_result)
       IN /\ state' = arm_Start(state.tag, state.action_id, state.step_id,
                                state.error, c)
          /\ state_data' = arm_Start_state_data(c)
          /\ call' = [call EXCEPT
                        !.invoked =
                          IF state.action_id[1] \in DOMAIN action_store
                          THEN @ \cup {<<state.action_id[1], state.step_id[1]>>}
                          ELSE @,
                        !.last_action =
                          << [id |-> state.action_id[1], step |-> state.step_id[1],
                              tag |-> state.tag,
                              res |-> IF state.action_id[1] \in DOMAIN action_store
                                      THEN action_result.k ELSE "NotStarted",
                              val |-> action_result.e,
                              data |-> action_result.data,
                              before |-> state_data,
                              step_data |-> call_action_step_data(state.step_id[1]),
                              vars |-> call_action_vars(state.step_id[1])] >>,
                        !.action_keys =
                          IF c.ok /\ c.action_result.k = "Finished"
                          THEN @ \cup DOMAIN c.action_result.data ELSE @]
  /\ UNCHANGED <<step_store, actions, action_store, stack, next_direction,
                 step_output, result, harness>>

\* States::Done(result) => return result, and the early returns
LoopReturn ==
  /\ state.tag \in {"Done", "Return"}
  /\ result' = state.error
  /\ state' = Idle
  /\ call' = NoCall
  /\ UNCHANGED <<step_store, actions, action_store, state_data, stack,
                 next_direction, step_output, harness>>

\* one iteration of the loop of Session::advance
Loop ==
  \/ LoopAdvanceStep
  \/ LoopGetSpecificAction
  \/ LoopGetGenericAction
  \/ LoopStart
  \/ LoopReturn

Next ==
  \/ AdvanceNone
  \/ AdvanceSome
  \/ Loop

Spec == Init /\ [][Next]_vars

\* the loop of a call in progress keeps running
FairSpec == Spec /\ WF_vars(Loop)

\* ------------------------------------------------------------------------
\* Sessions whose flow definition names identities that were reserved but
\* never inserted: set_action_for_step and push_substep take any identity
\* ------------------------------------------------------------------------
\* the actions that were inserted into the action store among those mapped
Setup_action_store_of(a, registered) ==
  [id \in (DOMAIN Setup_action_store(a)) \cap registered |->
     Setup_action_store(a)[id]]

\* Session::new followed by a flow definition of n steps in which the step
\* `dangle`, if any, gets the reserved identity n + 2 as its last substep
InitDangling ==
  \E n \in 0..(MaxSteps - 1) :
    \E p \in Parents(n), g \in Gates(n), a \in ActionSetups(n),
       registered \in SUBSET {specific_action_id, generic_action_id},
       dangle \in {<< >>} \cup {<< s >> : s \in 1..(n + 1)} :
      /\ step_store =
           [s \in DOMAIN AddSteps(Session_step_store, 2, n + 1, p, g) |->
              IF dangle = << s >>
              THEN push_substep(AddSteps(Session_step_store, 2, n + 1, p, g)[s],
                                n + 2)
              ELSE AddSteps(Session_step_store, 2, n + 1, p, g)[s]]
      /\ actions = Setup_actions(a)
      /\ action_store = Setup_action_store_of(a, registered)
      /\ state_data = StateData_new
      /\ stack = DepthFirstSearch_new(step_id_root).stack
      /\ next_direction = DepthFirstSearch_new(step_id_root).next_direction
      /\ state = Idle
      /\ step_output = << >>
      /\ result = NoResult
      /\ call = NoCall
      /\ harness = NoHarness

SpecDangling == InitDangling /\ [][Next]_vars

\* ------------------------------------------------------------------------
\* The cursor driven on its own, as by assert_dfs_order of dfs.rs: the
\* entry check of one chosen step and the exit check of one chosen step
\* each fail the first time they are evaluated
\* ------------------------------------------------------------------------
\* check_fail: does the check of step_id_check fail (and set has_failed)?
check_fail(fail, step_id_check, has_failed) ==
  IF has_failed THEN FALSE
  ELSE fail # << >> /\ fail[1] = step_id_check

\* the closures assert_dfs_order hands to next
harness_can_enter ==
  [step_id \in StepIds |->
     IF check_fail(harness.fail_on_enter, step_id, harness.failed_enter)
     THEN InvalidStateDataError ELSE Ok]

harness_can_exit ==
  [step_id \in StepIds |->
     IF check_fail(harness.fail_on_exit, step_id, harness.failed_exit)
     THEN InvalidStateDataError ELSE Ok]

InitDfs ==
  \E n \in 0..MaxSteps :
    \E p \in Parents(n), fe, fx \in {<< >>} \cup {<<s>> : s \in 1..(n + 1)} :
      /\ step_store = AddSteps(Session_step_store, 2, n + 1, p,
                               [s \in 2..(n + 1) |-> NoGate])
      /\ actions = << >>
      /\ action_store = << >>
      /\ state_data = StateData_new
      /\ stack = DepthFirstSearch_new(step_id_root).stack
      /\ next_direction = DepthFirstSearch_new(step_id_root).next_direction
      /\ state = Idle
      /\ step_output = << >>
      /\ result = NoResult
      /\ call = NoCall
      /\ harness = [on |-> TRUE, fail_on_enter |-> fe, fail_on_exit |-> fx,
                    failed_enter |-> FALSE, failed_exit |-> FALSE,
                    returned |-> << >>,   \* the steps of the Ok(Some) results
                    errors |-> 0,         \* number of calls that returned Err
                    last |-> "",          \* res of the last call
                    last_err |-> Ok,      \* err of the last call
                    last_checks |-> << >>,
                    \* the cursor before the last call, and what the call
                    \* before the last one evaluated and returned
                    prev |-> [stack |-> << >>, next_direction |-> "",
                              checks |-> << >>, res |-> "",
                              failed_exit |-> FALSE]]

\* one dfs.next call of the loop of assert_dfs_order
DfsNext ==
  /\ harness.on
  /\ LET n == next(stack, next_direction, harness_can_enter, harness_can_exit)
     IN /\ stack' = n.stack
        /\ next_direction' = n.next_direction
        /\ harness' =
             [harness EXCEPT
                !.failed_enter =
                  @ \/ \E i \in 1..Len(n.checks) :
                         /\ n.checks[i][1] = "enter"
                         /\ check_fail(harness.fail_on_enter, n.checks[i][2],
                                       harness.failed_enter),
                !.failed_exit =
                  @ \/ \E i \in 1..Len(n.checks) :
                         /\ n.checks[i][1] = "exit"
                         /\ check_fail(harness.fail_on_exit, n.checks[i][2],
                                       harness.failed_exit),
                !.returned = IF n.res = "Some" THEN Append(@, n.step[1]) ELSE @,
                !.errors = IF n.res = "Err" THEN @ + 1 ELSE @,
                !.last = n.res,
                !.last_err = n.err,
                !.last_checks = n.checks,
                !.prev = [stack |-> stack, next_direction |-> next_direction,
                          checks |-> harness.last_checks,
                          res |-> harness.last,
                          failed_exit |-> harness.failed_exit]]
  /\ UNCHANGED <<step_store, actions, action_store, state_data, state,
                 step_output, result, call>>

NextDfs == DfsNext

SpecDfs == InitDfs /\ [][NextDfs]_vars

\* ------------------------------------------------------------------------
\* The cursor driven on its own with gating checks of any outcome: each
\* dfs.next call gets closures that deny the entry of the steps of one set
\* and the exit of the steps of another, chosen anew for every call.
\* harness.pushed lists the steps in the order they were put on the
\* stack, harness.before is the cursor before the last call, and the prev_
\* fields are what the call before the last one returned.
\* ------------------------------------------------------------------------
EnterDenied == ErrVarId("IdMissing", 1)
ExitDenied == ErrVarId("IdMissing", 2)

cursor_can_enter(deny) ==
  [step_id \in StepIds |-> IF step_id \in deny THEN EnterDenied ELSE Ok]

cursor_can_exit(deny) ==
  [step_id \in StepIds |-> IF step_id \in deny THEN ExitDenied ELSE Ok]

\* the steps a call put on the stack: what the stack holds above the part
\* it shares with the stack before the call
RECURSIVE CommonPrefixLen(_, _)
CommonPrefixLen(a, b) ==
  IF a = << >> \/ b = << >> \/ Head(a) # Head(b) THEN 0
  ELSE 1 + CommonPrefixLen(Tail(a), Tail(b))

PushedBy(before, after) ==
  SubSeq(after, CommonPrefixLen(before, after) + 1, Len(after))

\* the last check of a failed call, as an Option
FailedCheck(n) ==
  IF n.res = "Err" /\ n.checks # << >>
  THEN << n.checks[Len(n.checks)] >> ELSE << >>

InitCursor ==
  \E n \in 0..MaxSteps :
    \E p \in Parents(n) :
      /\ step_store = AddSteps(Session_step_store, 2, n + 1, p,
                               [s \in 2..(n + 1) |-> NoGate])
      /\ actions = << >>
      /\ action_store = << >>
      /\ state_data = StateData_new
      /\ stack = DepthFirstSearch_new(step_id_root).stack
      /\ next_direction = DepthFirstSearch_new(step_id_root).next_direction
      /\ state = Idle
      /\ step_output = << >>
      /\ result = NoResult
      /\ call = NoCall
      /\ harness = [on |-> FALSE,
                    pushed |-> << step_id_root >>,
                    calls |-> 0,
                    deny_enter |-> {}, deny_exit |-> {},
                    last |-> "", last_err |-> Ok, last_step |-> << >>,
                    failed |-> << >>,
                    before |-> [stack |-> << >>, next_direction |-> ""],
                    same_denies |-> FALSE,
                    prev |-> "", prev_err |-> Ok, prev_failed |-> << >>]

\* one dfs.next call
CursorNext ==
  /\ "pushed" \in DOMAIN harness
  /\ \E deny_enter \in SUBSET (DOMAIN step_store \ {step_id_all, step_id_root}),
        deny_exit \in SUBSET (DOMAIN step_store \ {step_id_all}) :
       \E n \in {next(stack, next_direction, cursor_can_enter(deny_enter),
                      cursor_can_exit(deny_exit))} :
         /\ stack' = n.stack
         /\ next_direction' = n.next_direction
         /\ harness' =
              [harness EXCEPT
                 !.pushed = @ \o PushedBy(stack, n.stack),
                 !.calls = IF @ < 2 THEN @ + 1 ELSE @,
                 !.deny_enter = deny_enter,
                 !.deny_exit = deny_exit,
                 !.last = n.res,
                 !.last_err = n.err,
                 !.last_step = n.step,
                 !.failed = FailedCheck(n),
                 !.before = [stack |-> stack, next_direction |-> next_direction],
                 !.same_denies = /\ deny_enter = harness.deny_enter
                                 /\ deny_exit = harness.deny_exit
                                 /\ harness.calls > 0,
                 !.prev = harness.last,
                 !.prev_err = harness.last_err,
                 !.prev_failed = harness.failed]
  /\ UNCHANGED <<step_store, actions, action_store, state_data, state,
                 step_output, result, call>>

NextCursor == CursorNext

SpecCursor == InitCursor /\ [][NextCursor]_vars

\* ------------------------------------------------------------------------
\* The action map of a session being set up: any sequence of
\* set_action_for_step calls, for a step or for None, with action
\* identities that may or may not be in the action store.  harness.last is
\* the last call with its arguments, its result and the map before it.
\* ------------------------------------------------------------------------
ActionIds == {specific_action_id, generic_action_id, 2}

InitSetAction ==
  \E n \in 0..MaxSteps :
    /\ step_store = AddSteps(Session_step_store, 2, n + 1,
                             [s \in 2..(n + 1) |-> step_id_root],
                             [s \in 2..(n + 1) |-> NoGate])
    /\ actions = << >>
    /\ action_store = (specific_action_id :> "Any")
    /\ state_data = StateData_new
    /\ stack = DepthFirstSearch_new(step_id_root).stack
    /\ next_direction = DepthFirstSearch_new(step_id_root).next_direction
    /\ state = Idle
    /\ step_output = << >>
    /\ result = NoResult
    /\ call = NoCall
    /\ harness = [on |-> FALSE, set_action |-> TRUE, last |-> << >>]

\* a caller calls Session::set_action_for_step(action_id, step_id)
SetActionForStep ==
  /\ "set_action" \in DOMAIN harness
  /\ \E action_id \in ActionIds,
        step_id \in {<< >>} \cup {<< s >> : s \in StepIds \ {step_id_all}} :
       /\ actions' = set_action_for_step(actions, action_id, step_id)
       /\ harness' = [harness EXCEPT
                        !.last = << [action_id |-> action_id, step_id |-> step_id,
                                     res |-> set_action_for_step_result(
                                               actions, action_id, step_id),
                                     before |-> actions] >>]
  /\ UNCHANGED <<step_store, action_store, state_data, stack, next_direction,
                 state, step_output, result, call>>

NextSetAction == SetActionForStep

SpecSetAction == InitSetAction /\ [][NextSetAction]_vars

\* ------------------------------------------------------------------------
\* An ObjectStore driven on its own, as by the tests of object_store.rs and
\* object_store_filtered.rs: any sequence of reserve_id, register,
\* register_named, insert_new and insert_new_named calls, and lookups
\* through filtered views.  harness.store is the store, harness.handed_max
\* the greatest identity the store has handed out so far, harness.last the
\* last call with its arguments, its result and the store before it.
\* ------------------------------------------------------------------------
Ids == 0..(IdSpace - 1)
ObjVals == {100, 3}
Names == {"t1", "t2"}
LookupNames == Names \cup {"BAD"}
Factories ==
  {[k |-> "UseId", id |-> 0, val |-> 100], [k |-> "Fail", id |-> 0, val |-> 100]}
  \cup {[k |-> "OtherId", id |-> i, val |-> 100] : i \in Ids}

NoFactory == [k |-> "", id |-> 0, val |-> 0]

\* the record of a call that may change the store: handed is the identity
\* reserved during the call, as an Option
StoreCall(op, name, object, cb, handed, r) ==
  [op |-> op, name |-> name, object |-> object, cb |-> cb, handed |-> handed,
   res |-> r.res, before |-> harness.store,
   handed_before |-> harness.handed_max]

StoreAfter(r, handed, last_call) ==
  [on |-> FALSE, store |-> r.store,
   handed_max |-> IF handed = << >> THEN harness.handed_max
                  ELSE IF harness.handed_max = << >> THEN handed
                  ELSE IF handed[1] > harness.handed_max[1] THEN handed
                  ELSE harness.handed_max,
   last |-> last_call]

StoreUnchanged ==
  UNCHANGED <<step_store, actions, action_store, state_data, stack,
              next_direction, state, step_output, result, call>>

InitStore ==
  /\ step_store = Session_step_store
  /\ actions = << >>
  /\ action_store = << >>
  /\ state_data = StateData_new
  /\ stack = DepthFirstSearch_new(step_id_root).stack
  /\ next_direction = DepthFirstSearch_new(step_id_root).next_direction
  /\ state = Idle
  /\ step_output = << >>
  /\ result = NoResult
  /\ call = NoCall
  /\ harness = [on |-> FALSE, store |-> ObjectStore_new, handed_max |-> << >>,
                last |-> [op |-> "new"]]

StoreReserveId ==
  /\ "store" \in DOMAIN harness
  /\ LET r == reserve_id(harness.store)
     IN harness' = StoreAfter(r, << r.id >>,
                     StoreCall("reserve_id", "", TestObject_new(0, 0), NoFactory,
                               << r.id >>, [res |-> IdOk(r.id)]))
  /\ StoreUnchanged

StoreRegister ==
  /\ "store" \in DOMAIN harness
  /\ \E id \in Ids, val \in ObjVals :
       LET r == register(harness.store, TestObject_new(id, val))
       IN harness' = StoreAfter(r, << >>,
                       StoreCall("register", "", TestObject_new(id, val),
                                 NoFactory, << >>, r))
  /\ StoreUnchanged

StoreRegisterNamed ==
  /\ "store" \in DOMAIN harness
  /\ \E name \in Names, id \in Ids, val \in ObjVals :
       LET r == register_named(harness.store, name, TestObject_new(id, val))
       IN harness' = StoreAfter(r, << >>,
                       StoreCall("register_named", name, TestObject_new(id, val),
                                 NoFactory, << >>, r))
  /\ StoreUnchanged

StoreInsertNew ==
  /\ "store" \in DOMAIN harness
  /\ \E cb \in Factories :
       LET r == insert_new(harness.store, cb)
           reserved == reserve_id(harness.store).id
       IN harness' = StoreAfter(r, << reserved >>,
                       StoreCall("insert_new", "", cb_call(cb, reserved).object,
                                 cb, << reserved >>, r))
  /\ StoreUnchanged

StoreInsertNewNamed ==
  /\ "store" \in DOMAIN harness
  /\ \E name \in Names, cb \in Factories :
       LET r == insert_new_named(harness.store, name, cb)
           reserved == reserve_id(harness.store).id
       IN harness' = StoreAfter(r, << reserved >>,
                       StoreCall("insert_new_named", name,
                                 cb_call(cb, reserved).object, cb,
                                 << reserved >>, r))
  /\ StoreUnchanged

NextStore ==
  \/ StoreReserveId
  \/ StoreRegister
  \/ StoreRegisterNamed
  \/ StoreInsertNew
  \/ StoreInsertNewNamed

SpecStore == InitStore /\ [][NextStore]_vars

\* ------------------------------------------------------------------------
\* Filtered views looked into, as by tests::basic of object_store_filtered.rs
\* and of statedata_filtered.rs: a store filled by up to MaxInserts calls
\* and a StateData, then lookups through views with any allowed set.
\* harness.last is the last lookup with the answers it got.
\* ------------------------------------------------------------------------
MaxInserts == 2

\* the calls that fill the store: insert_new, insert_new_named and, with a
\* hand-made identity, register_named
FillCalls ==
  {[op |-> "insert_new", name |-> "", id |-> 0]}
  \cup {[op |-> "insert_new_named", name |-> n, id |-> 0] : n \in Names}
  \cup {[op |-> "register_named", name |-> n, id |-> i] : n \in Names, i \in Ids}

Fill(store, c) ==
  CASE c.op = "insert_new" ->
         insert_new(store, [k |-> "UseId", id |-> 0, val |-> 100]).store
    [] c.op = "insert_new_named" ->
         insert_new_named(store, c.name, [k |-> "UseId", id |-> 0, val |-> 100]).store
    [] c.op = "register_named" ->
         register_named(store, c.name, TestObject_new(c.id, 3)).store

RECURSIVE FillAll(_, _)
FillAll(store, calls) ==
  IF calls = << >> THEN store
  ELSE FillAll(Fill(store, Head(calls)), Tail(calls))

FilledStores ==
  {FillAll(ObjectStore_new, calls) :
     calls \in UNION {[1..n -> FillCalls] : n \in 0..MaxInserts}}

InitViews ==
  /\ step_store = Session_step_store
  /\ actions = << >>
  /\ action_store = << >>
  /\ state_data = StateData_new
  /\ stack = DepthFirstSearch_new(step_id_root).stack
  /\ next_direction = DepthFirstSearch_new(step_id_root).next_direction
  /\ state = Idle
  /\ step_output = << >>
  /\ result = NoResult
  /\ call = NoCall
  /\ \E store \in FilledStores, data \in AllData :
       harness = [on |-> FALSE, viewed_store |-> store, viewed_data |-> data,
                  last |-> [op |-> "new"]]

\* lookups through an ObjectStoreFiltered over the store
StoreViewLookup ==
  /\ "viewed_store" \in DOMAIN harness
  /\ \E allowed_ids \in SUBSET Ids, id \in Ids, name \in LookupNames :
       LET view == ObjectStoreFiltered_new(harness.viewed_store, allowed_ids)
       IN harness' =
            [harness EXCEPT
               !.viewed_store = view.object_store,
               !.last = [op |-> "view", allowed_ids |-> allowed_ids,
                         id |-> id, name |-> name,
                         get |-> ObjectStoreFiltered_get(view, id),
                         name_from_id |-> ObjectStoreFiltered_name_from_id(view, id),
                         id_from_name |-> ObjectStoreFiltered_id_from_name(view, name),
                         get_by_name |-> ObjectStoreFiltered_get_by_name(view, name),
                         store_before |-> harness.viewed_store,
                         data_before |-> harness.viewed_data]]
  /\ StoreUnchanged

\* lookups through a StateDataFiltered over the StateData
DataViewLookup ==
  /\ "viewed_data" \in DOMAIN harness
  /\ \E allowed_var_ids \in SUBSET VarIds, var_id \in VarIds :
       LET view == StateDataFiltered_new(harness.viewed_data, allowed_var_ids)
       IN harness' =
            [harness EXCEPT
               !.viewed_data = view.state_data,
               !.last = [op |-> "data_view", allowed_var_ids |-> allowed_var_ids,
                         var_id |-> var_id,
                         get |-> StateDataFiltered_get(view, var_id),
                         contains |-> StateDataFiltered_contains(view, var_id),
                         store_before |-> harness.viewed_store,
                         data_before |-> harness.viewed_data]]
  /\ StoreUnchanged

NextViews ==
  \/ StoreViewLookup
  \/ DataViewLookup

SpecViews == InitViews /\ [][NextViews]_vars

\* ------------------------------------------------------------------------
\* A Step and a StateData on their own, as by the tests of step.rs and
\* statedata.rs: the step's gating checks are asked about the StateData and
\* other StateData are merged into it.  harness.step and harness.data are
\* the two objects, harness.last the last call with what it returned and
\* the objects before it.
\* ------------------------------------------------------------------------
MaxVars == 2

\* the lists of variable identities a step may declare
VarLists == UNION {[1..n -> VarIds] : n \in 0..MaxVars}

InitStep ==
  /\ step_store = Session_step_store
  /\ actions = << >>
  /\ action_store = << >>
  /\ state_data = StateData_new
  /\ stack = DepthFirstSearch_new(step_id_root).stack
  /\ next_direction = DepthFirstSearch_new(step_id_root).next_direction
  /\ state = Idle
  /\ step_output = << >>
  /\ result = NoResult
  /\ call = NoCall
  /\ \E input_vars \in {<< >>} \cup {<< l >> : l \in VarLists},
        output_vars \in VarLists, data \in AllData :
       harness = [on |-> FALSE, step |-> Step_new(input_vars, output_vars),
                  data |-> data, last |-> [op |-> "new"]]

StepCanEnter ==
  /\ "step" \in DOMAIN harness
  /\ harness' = [harness EXCEPT
                   !.last = [op |-> "can_enter",
                             res |-> can_enter(harness.step, harness.data),
                             step |-> harness.step, data |-> harness.data,
                             src |-> StateData_new]]
  /\ StoreUnchanged

StepCanExit ==
  /\ "step" \in DOMAIN harness
  /\ harness' = [harness EXCEPT
                   !.last = [op |-> "can_exit",
                             res |-> can_exit(harness.step, harness.data),
                             step |-> harness.step, data |-> harness.data,
                             src |-> StateData_new]]
  /\ StoreUnchanged

DataMergeFrom ==
  /\ "step" \in DOMAIN harness
  /\ \E src \in AllData :
       harness' = [harness EXCEPT
                     !.data = merge_from(harness.data, src),
                     !.last = [op |-> "merge_from", res |-> Ok,
                               step |-> harness.step, data |-> harness.data,
                               src |-> src]]
  /\ StoreUnchanged

NextStep ==
  \/ StepCanEnter
  \/ StepCanExit
  \/ DataMergeFrom

SpecStep == InitStep /\ [][NextStep]_vars

\* ------------------------------------------------------------------------
\* stepflow-data: Values, Vars and ValidVal.  A Value is its dynamic kind
\* and its payload, a Var its identity and its kind; a text is the sequence
\* of its characters.
\* ------------------------------------------------------------------------
MaxText == 4

ValueKinds == {"StringValue", "EmailValue", "TrueValue", "UriValue", "BoolValue"}
VarKinds == {"StringVar", "EmailVar", "TrueVar", "UriVar", "BoolVar"}

\* define_var!(name, valuetype): the Value kind a Var kind is declared with
valuetype(var_kind) ==
  CASE var_kind = "EmailVar" -> "EmailValue"
    [] var_kind = "StringVar" -> "StringValue"
    [] var_kind = "TrueVar" -> "TrueValue"
    [] var_kind = "UriVar" -> "UriValue"
    [] var_kind = "BoolVar" -> "BoolValue"

ValueOk == [ok |-> TRUE, err |-> ""]
InvalidValue(e) == [ok |-> FALSE, err |-> e]

Letters ==
  {"a", "b", "c", "d", "e", "f", "g", "h", "i", "j", "k", "l", "m", "n", "o",
   "p", "q", "r", "s", "t", "u", "v", "w", "x", "y", "z"}

\* char::is_alphanumeric and char::is_whitespace on the characters used
is_alphanumeric(c) == c \in Letters
is_whitespace(c) == c = " "

is_valid_email_local_part_char(c) ==
  \/ is_alphanumeric(c)
  \/ c \in {"!", "#", "$", "%", "&", "*", "+", "-", "/", "=", "?", "_",
            "{", "|", "}", "~"}

\* the loop of extract_login from character i on: the Option of the login
RECURSIVE extract_login_from(_, _, _, _)
extract_login_from(input, i, st, login) ==
  IF i > Len(input)
  THEN IF login = << >> THEN << >> ELSE << login >>
  ELSE LET c == input[i]
       IN IF is_whitespace(c) THEN << >>
          ELSE IF st \in {"LoginAnyLocalPartChar", "LoginAnyLocalPartCharAndDot"}
          THEN IF is_valid_email_local_part_char(c)
               THEN extract_login_from(input, i + 1,
                                       "LoginAnyLocalPartCharAndDot", login)
               ELSE IF st = "LoginAnyLocalPartCharAndDot" /\ c = "."
               THEN extract_login_from(input, i + 1, "LoginAnyLocalPartChar", login)
               ELSE IF c = "@"
               THEN IF i = 1 \/ input[i - 1] = "." THEN << >>
                    ELSE extract_login_from(input, i + 1, "Domain",
                                            SubSeq(input, 1, i - 1))
               ELSE << >>
          ELSE IF c = "@" THEN << >>
               ELSE extract_login_from(input, i + 1, "Domain", login)

extract_login(input) ==
  extract_login_from(input, 1, "LoginAnyLocalPartChar", << >>)

EmailValue_validate(val) ==
  IF val = << >> THEN InvalidValue("Empty")
  ELSE IF extract_login(val) = << >> THEN InvalidValue("BadFormat")
  ELSE ValueOk

\* EmailValue::try_new: the Result and, when Ok, the value
EmailValue_try_new(val) ==
  [res |-> EmailValue_validate(val),
   value |-> IF EmailValue_validate(val).ok
             THEN << [kind |-> "EmailValue", val |-> val] >> ELSE << >>]

\* EmailVar::value_from_str: s.parse::<EmailValue>() is EmailValue::from_str
EmailVar_value_from_str(s) == EmailValue_try_new(s)

\* validate_val_type gone wrong: an e-mail is accepted for a StringVar
validate_val_type_by_payload(var, val) ==
  IF val.kind = valuetype(var.kind)
     \/ (var.kind = "StringVar" /\ val.kind = "EmailValue")
  THEN ValueOk
  ELSE InvalidValue("WrongType")

validate_val_type(var, val) ==
  IF val.kind = valuetype(var.kind) THEN ValueOk
  ELSE InvalidValue("WrongType")

\* ValidVal::try_new: the Result and, when Ok, the ValidVal
ValidVal_try_new(val, validate_with) ==
  [res |-> validate_val_type(validate_with, val),
   valid |-> IF validate_val_type(validate_with, val).ok
             THEN << [val |-> val, validated_by |-> validate_with.id] >>
             ELSE << >>]

\* StateData::insert gone wrong: the value is stored without validation
StateData_insert_unvalidated(data, var, state_val) ==
  [res |-> ValueOk,
   data |-> [k \in (DOMAIN data) \cup {var.id} |->
               IF k = var.id THEN [val |-> state_val, validated_by |-> var.id]
               ELSE data[k]]]

\* StateData::insert: the Result and the StateData afterwards
StateData_insert(data, var, state_val) ==
  IF ~ValidVal_try_new(state_val, var).res.ok
  THEN [res |-> ValidVal_try_new(state_val, var).res, data |-> data]
  ELSE [res |-> ValueOk,
        data |-> [k \in (DOMAIN data) \cup {var.id} |->
                    IF k = var.id THEN ValidVal_try_new(state_val, var).valid[1]
                    ELSE data[k]]]

\* StateData::from_vals on the list `pairs` of [var, val]: Ok with the
\* StateData, a later pair replacing an earlier one of the same identity, or
\* Err with the InvalidVars map from the identity of each refused pair to
\* its error
StateData_from_vals(pairs) ==
  LET validations == [i \in 1..Len(pairs) |->
                        ValidVal_try_new(pairs[i].val, pairs[i].var)]
      refused == {i \in 1..Len(pairs) : ~validations[i].res.ok}
      LastOf(I, id) == CHOOSE i \in I :
                         /\ pairs[i].var.id = id
                         /\ \A j \in I : pairs[j].var.id = id => j <= i
  IN IF refused # {}
     THEN [ok |-> FALSE,
           invalid |-> [id \in {pairs[i].var.id : i \in refused} |->
                          validations[LastOf(refused, id)].res],
           data |-> StateData_new]
     ELSE [ok |-> TRUE, invalid |-> << >>,
           data |-> [id \in {pairs[i].var.id : i \in 1..Len(pairs)} |->
                       validations[LastOf(1..Len(pairs), id)].valid[1]]]

\* ------------------------------------------------------------------------
\* Two StateData built on their own through new, insert, from_vals and
\* merge_from, with Vars of which two share an identity.  harness.a and
\* harness.b are the StateData, harness.last tells the last call.
\* ------------------------------------------------------------------------
MaxPairs == 2

DataVars ==
  {[id |-> 1, kind |-> "StringVar"], [id |-> 2, kind |-> "EmailVar"],
   [id |-> 2, kind |-> "BoolVar"]}
DataValues == [kind : {"StringValue", "EmailValue", "BoolValue"}, val : {"hi"}]
DataPairs == UNION {[1..n -> [var : DataVars, val : DataValues]] : n \in 0..MaxPairs}

InitStateData ==
  /\ step_store = Session_step_store
  /\ actions = << >>
  /\ action_store = << >>
  /\ state_data = StateData_new
  /\ stack = DepthFirstSearch_new(step_id_root).stack
  /\ next_direction = DepthFirstSearch_new(step_id_root).next_direction
  /\ state = Idle
  /\ step_output = << >>
  /\ result = NoResult
  /\ call = NoCall
  /\ harness = [on |-> FALSE, a |-> StateData_new, b |-> StateData_new,
                last |-> [op |-> "new", ok |-> TRUE, on_a |-> TRUE]]

\* insert on one of the two StateData
StateDataInsert ==
  /\ "a" \in DOMAIN harness
  /\ \E var \in DataVars, val \in DataValues, on_a \in BOOLEAN :
       \E r \in {StateData_insert(IF on_a THEN harness.a ELSE harness.b,
                                    var, val)} :
         harness' = [harness EXCEPT
                       !.a = IF on_a THEN r.data ELSE @,
                       !.b = IF on_a THEN @ ELSE r.data,
                       !.last = [op |-> "insert", ok |-> r.res.ok,
                                 on_a |-> on_a]]
  /\ StoreUnchanged

\* one of the two StateData is replaced by the result of from_vals
StateDataFromVals ==
  /\ "a" \in DOMAIN harness
  /\ \E pairs \in DataPairs, on_a \in BOOLEAN :
       \E r \in {StateData_from_vals(pairs)} :
         harness' = [harness EXCEPT
                       !.a = IF on_a /\ r.ok THEN r.data ELSE @,
                       !.b = IF ~on_a /\ r.ok THEN r.data ELSE @,
                       !.last = [op |-> "from_vals", ok |-> r.ok,
                                 on_a |-> on_a]]
  /\ StoreUnchanged

\* one of the two StateData is merged into the other
StateDataMergeFrom ==
  /\ "a" \in DOMAIN harness
  /\ \E on_a \in BOOLEAN :
       harness' = [harness EXCEPT
                     !.a = IF on_a THEN merge_from(harness.a, harness.b) ELSE @,
                     !.b = IF on_a THEN @ ELSE merge_from(harness.b, harness.a),
                     !.last = [op |-> "merge_from", ok |-> TRUE, on_a |-> on_a]]
  /\ StoreUnchanged

NextStateData ==
  \/ StateDataInsert
  \/ StateDataFromVals
  \/ StateDataMergeFrom

SpecStateData == InitStateData /\ [][NextStateData]_vars

\* ------------------------------------------------------------------------
\* Values on their own, as by the tests of stepflow-data: a text is given
\* to EmailValue::try_new and EmailVar::value_from_str, and Values are
\* validated against Vars and inserted into a StateData.
\* ------------------------------------------------------------------------
TextChars == {"a", "-", ".", "@", " ", "<"}

Str_a_at_b_com == <<"a", "@", "b", ".", "c", "o", "m">>
Str_not_an_email ==
  <<"n", "o", "t", "-", "a", "n", "-", "e", "m", "a", "i", "l">>
Str_ab_com == <<"a", "b", ".", "c", "o", "m">>

Texts ==
  UNION {[1..n -> TextChars] : n \in 0..MaxText}
    \cup {Str_a_at_b_com, Str_not_an_email, Str_ab_com}

Payloads == {"hi", "a@b.com"}
Values == [kind : ValueKinds, val : Payloads]
Vars == [id : VarIds, kind : VarKinds]

InitValue ==
  /\ step_store = Session_step_store
  /\ actions = << >>
  /\ action_store = << >>
  /\ state_data = StateData_new
  /\ stack = DepthFirstSearch_new(step_id_root).stack
  /\ next_direction = DepthFirstSearch_new(step_id_root).next_direction
  /\ state = Idle
  /\ step_output = << >>
  /\ result = NoResult
  /\ call = NoCall
  /\ \/ \E text \in Texts :
          harness = [on |-> FALSE, text |-> text, last |-> [op |-> "new"]]
     \/ harness = [on |-> FALSE, vdata |-> StateData_new, last |-> [op |-> "new"]]

ValueEmailTryNew ==
  /\ "text" \in DOMAIN harness
  /\ harness' = [harness EXCEPT
                   !.last = [op |-> "try_new",
                             res |-> EmailValue_try_new(harness.text)]]
  /\ StoreUnchanged

ValueEmailFromStr ==
  /\ "text" \in DOMAIN harness
  /\ harness' = [harness EXCEPT
                   !.last = [op |-> "value_from_str",
                             res |-> EmailVar_value_from_str(harness.text)]]
  /\ StoreUnchanged

ValueValidate ==
  /\ "vdata" \in DOMAIN harness
  /\ \E var \in Vars, val \in Values :
       harness' = [harness EXCEPT
                     !.last = [op |-> "validate", var |-> var, val |-> val,
                               res |-> validate_val_type(var, val),
                               valid |-> ValidVal_try_new(val, var),
                               before |-> harness.vdata]]
  /\ StoreUnchanged

ValueInsert ==
  /\ "vdata" \in DOMAIN harness
  /\ \E var \in Vars, val \in Values :
       harness' = [harness EXCEPT
                     !.vdata = StateData_insert(harness.vdata, var, val).data,
                     !.last = [op |-> "insert", var |-> var, val |-> val,
                               res |-> StateData_insert(harness.vdata, var, val).res,
                               valid |-> ValidVal_try_new(val, var),
                               before |-> harness.vdata]]
  /\ StoreUnchanged

NextValue ==
  \/ ValueEmailTryNew
  \/ ValueEmailFromStr
  \/ ValueValidate
  \/ ValueInsert

SpecValue == InitValue /\ [][NextValue]_vars

\* ------------------------------------------------------------------------
\* ActionObjectStore: the action registry behind an RwLock.  The lock is
\* the Option of the thread holding the write guard.  Every operation is
\* two steps of its thread: action_store_write (try_write), and, with the
\* guard, the closure on the ObjectStore, after which the guard is dropped.
\* ------------------------------------------------------------------------
Threads == {1, 2}

ActionObjectStore_with_capacity ==
  [object_store |-> ObjectStore_new, lock |-> << >>]

AosOk(inner) == [k |-> "Ok", inner |-> inner]
AosActionId(inner) == [k |-> "ActionId", inner |-> inner]
AosOther == [k |-> "Other", inner |-> IdErr("", 0)]

\* action_store_write gone wrong: the guard is handed out although another
\* thread holds it
action_store_write_unchecked(aos, t) ==
  [ok |-> TRUE, aos |-> [aos EXCEPT !.lock = << t >>]]

\* action_store_write: try_write().map_err(|_e| Error::Other)
action_store_write(aos, t) ==
  IF aos.lock = << >>
  THEN [ok |-> TRUE, aos |-> [aos EXCEPT !.lock = << t >>]]
  ELSE [ok |-> FALSE, aos |-> aos]

\* Result<_, IdError> of the ObjectStore as Result<_, Error>
map_err_ActionId(r) ==
  [res |-> IF r.res.e = "Ok" THEN AosOk(r.res) ELSE AosActionId(r.res),
   store |-> r.store]

\* the closure of an operation on the ObjectStore under the guard: the set
\* of its outcomes, each the Result and the store afterwards
ActionObjectStore_closure(store, c) ==
  CASE c.op = "reserve_id" ->
         {[res |-> AosOk(IdOk(reserve_id(store).id)),
           store |-> reserve_id(store).store]}
    [] c.op = "insert_new" -> {map_err_ActionId(insert_new(store, c.cb))}
    [] c.op = "insert_new_named" ->
         {map_err_ActionId(insert_new_named(store, c.name, c.cb))}
    [] c.op = "register" ->
         {map_err_ActionId(register(store, TestObject_new(c.id, 100)))}
    [] c.op = "id_from_name" ->
         {[res |-> IF id_from_name(store, c.name) = << >>
                   THEN AosActionId(NameErr("NoSuchName", c.name))
                   ELSE AosOk(IdOk(id_from_name(store, c.name)[1])),
           store |-> store]}
    [] c.op = "name_from_id" ->
         {[res |-> IF n = << >> THEN AosActionId(IdErr("IdMissing", c.id))
                   ELSE AosOk(NameErr("Ok", n[1])),
           store |-> store] : n \in name_from_id(store, c.id)}
    [] c.op = "start_action" ->
         {[res |-> IF ObjectStore_get(store, c.id) = << >>
                   THEN AosActionId(IdErr("IdMissing", c.id))
                   ELSE AosOk(IdErr("ActionResult", c.id)),
           store |-> store]}

AosCall(op, name, id, cb) == [op |-> op, name |-> name, id |-> id, cb |-> cb]

AosFactories ==
  {[k |-> "UseId", id |-> 0, val |-> 100], [k |-> "Fail", id |-> 0, val |-> 100]}

AosCalls ==
  {AosCall("reserve_id", "", 0, NoFactory)}
    \cup {AosCall("insert_new", "", 0, cb) : cb \in AosFactories}
    \cup {AosCall("insert_new_named", "t1", 0, cb) : cb \in AosFactories}
    \cup {AosCall("register", "", id, NoFactory) : id \in Ids}
    \cup {AosCall("id_from_name", n, 0, NoFactory) : n \in {"t1", "BAD"}}
    \cup {AosCall("name_from_id", "", id, NoFactory) : id \in Ids}
    \cup {AosCall("start_action", "", id, NoFactory) : id \in Ids}

NoAosCall == AosCall("", "", 0, NoFactory)

InitAos ==
  /\ step_store = Session_step_store
  /\ actions = << >>
  /\ action_store = << >>
  /\ state_data = StateData_new
  /\ stack = DepthFirstSearch_new(step_id_root).stack
  /\ next_direction = DepthFirstSearch_new(step_id_root).next_direction
  /\ state = Idle
  /\ step_output = << >>
  /\ result = NoResult
  /\ call = NoCall
  /\ harness = [on |-> FALSE, aos |-> ActionObjectStore_with_capacity,
                running |-> [t \in Threads |-> NoAosCall],
                last |-> [op |-> "new"]]

\* thread t calls an operation: it gets the guard and goes on to the
\* closure, or the operation returns Error::Other at once
AosTryWrite(t) ==
  /\ "aos" \in DOMAIN harness
  /\ harness.running[t] = NoAosCall
  /\ \E c \in AosCalls :
       LET w == action_store_write(harness.aos, t)
       IN harness' =
            IF w.ok
            THEN [harness EXCEPT
                    !.aos = w.aos,
                    !.running[t] = c,
                    !.last = [op |-> "try_write", thread |-> t, c |-> c,
                              res |-> AosOk(IdOk(0)), before |-> harness.aos]]
            ELSE [harness EXCEPT
                    !.aos = w.aos,
                    !.last = [op |-> "contended", thread |-> t, c |-> c,
                              res |-> AosOther, before |-> harness.aos]]
  /\ StoreUnchanged

\* the action started by start_action on thread t calls the registry
\* itself while start_action holds the guard
AosReenter(t) ==
  /\ "aos" \in DOMAIN harness
  /\ harness.running[t].op = "start_action"
  /\ ObjectStore_get(harness.aos.object_store, harness.running[t].id) # << >>
  /\ \E c \in AosCalls :
       LET w == action_store_write(harness.aos, t)
       IN /\ ~w.ok
          /\ harness' = [harness EXCEPT
                           !.aos = w.aos,
                           !.last = [op |-> "contended", thread |-> t, c |-> c,
                                     res |-> AosOther, before |-> harness.aos]]
  /\ StoreUnchanged

\* thread t runs the closure of its operation and drops the guard
AosClosure(t) ==
  /\ "aos" \in DOMAIN harness
  /\ harness.running[t] # NoAosCall
  /\ \E r \in ActionObjectStore_closure(harness.aos.object_store,
                                         harness.running[t]) :
       harness' = [harness EXCEPT
                     !.aos = [object_store |-> r.store, lock |-> << >>],
                     !.running[t] = NoAosCall,
                     !.last = [op |-> "closure", thread |-> t,
                               c |-> harness.running[t], res |-> r.res,
                               before |-> harness.aos]]
  /\ StoreUnchanged

NextAos ==
  \/ \E t \in Threads : AosTryWrite(t)
  \/ \E t \in Threads : AosReenter(t)
  \/ \E t \in Threads : AosClosure(t)

SpecAos == InitAos /\ [][NextAos]_vars

\* ------------------------------------------------------------------------
\* SetDataAction (stepflow-action/src/action/action_set_data.rs) on its
\* own: one action is created and started again and again; harness.starts
\* counts the calls of start.
\* ------------------------------------------------------------------------
MaxAttempts == 3

SetDataAction_new(id, data, after_attempt) ==
  [id |-> id, count |-> 0, after_attempt |-> after_attempt, data |-> data]

\* start gone wrong: the counter is compared after it is incremented
SetDataAction_start_counts_first(action) ==
  IF action.count + 1 >= action.after_attempt
  THEN [res |-> Finished(action.data), action |-> action]
  ELSE [res |-> CannotFulfill,
        action |-> [action EXCEPT !.count = @ + 1]]

\* SetDataAction::start: the ActionResult and the action afterwards
SetDataAction_start(action) ==
  IF action.count >= action.after_attempt
  THEN [res |-> Finished(action.data), action |-> action]
  ELSE [res |-> CannotFulfill,
        action |-> [action EXCEPT !.count = @ + 1]]

InitSetData ==
  /\ step_store = Session_step_store
  /\ actions = << >>
  /\ action_store = << >>
  /\ state_data = StateData_new
  /\ stack = DepthFirstSearch_new(step_id_root).stack
  /\ next_direction = DepthFirstSearch_new(step_id_root).next_direction
  /\ state = Idle
  /\ step_output = << >>
  /\ result = NoResult
  /\ call = NoCall
  /\ \E data \in AllData, after_attempt \in 0..MaxAttempts :
       harness = [on |-> FALSE,
                  set_data |-> SetDataAction_new(generic_action_id, data,
                                                 after_attempt),
                  created |-> [data |-> data, after_attempt |-> after_attempt],
                  starts |-> 0, last |-> [op |-> "new"]]

SetDataStart ==
  /\ "set_data" \in DOMAIN harness
  /\ harness.starts < MaxAttempts + 2
  /\ harness' = [harness EXCEPT
                   !.set_data = SetDataAction_start(harness.set_data).action,
                   !.starts = @ + 1,
                   !.last = [op |-> "start",
                             res |-> SetDataAction_start(harness.set_data).res]]
  /\ StoreUnchanged

NextSetData == SetDataStart

SpecSetData == InitSetData /\ [][NextSetData]_vars

\* ------------------------------------------------------------------------
\* Vocabulary of the properties
\* ------------------------------------------------------------------------
\* the call in progress has reached its return; Returned is what it returns
Returning == state.tag \in {"Done", "Return"}
Returned == state.error

IsPrefix(a, b) == Len(a) <= Len(b) /\ SubSeq(b, 1, Len(a)) = a

\* position of x in the sequence q (x occurs in q)
IndexOf(q, x) == CHOOSE i \in 1..Len(q) : q[i] = x

\* the leaves below step s in left-to-right depth-first order, by the
\* textbook recursion over the tree
RECURSIVE PreorderLeaves(_)
RECURSIVE PreorderLeavesOf(_)
PreorderLeaves(s) ==
  IF step_store[s].substep_step_ids = << >> THEN <<s>>
  ELSE PreorderLeavesOf(step_store[s].substep_step_ids)
PreorderLeavesOf(q) ==
  IF q = << >> THEN << >>
  ELSE PreorderLeaves(Head(q)) \o PreorderLeavesOf(Tail(q))

\* no step declares required inputs or outputs
Ungated ==
  \A s \in DOMAIN step_store :
    step_store[s].input_vars = << >> /\ step_store[s].output_vars = << >>

\* the only registered action is a generic one of behaviour kind
OnlyGeneric(kind) ==
  /\ DOMAIN actions = {step_id_all}
  /\ action_store[actions[step_id_all]] = kind

\* every step below the root is a child of the root
Linear ==
  \A s \in DOMAIN step_store : s # step_id_root => step_store[s].substep_step_ids = << >>

\* the steps of the flow, the sentinel aside
FlowSteps == DOMAIN step_store \ {step_id_all, step_id_root}

\* ------------------------------------------------------------------------
\* C1: on a tree without gating and with a generic action that always
\* returns StartWith, the k-th advance reports ActionStartWith with the
\* cursor on the k-th leaf of the left-to-right depth-first order, and the
\* advance after the last leaf returns FinishedAdvancing: when a call
\* returns, the leaf it reports is the one after the leaf the cursor was on
\* when the call started (the first leaf for a fresh cursor).
\* ------------------------------------------------------------------------
C1_LeavesInPreorder ==
  (Ungated /\ OnlyGeneric("StartWith") /\ Returning /\ call.arg = << >>) =>
    LET leaves == PreorderLeaves(step_id_root)
        done == IF call.dir0 = "Down" THEN 0
                ELSE IF call.stack0 = << >> THEN Len(leaves)
                ELSE IndexOf(leaves, current(call.stack0)[1])
    IN IF done < Len(leaves)
       THEN /\ Returned = ActionStartWith(generic_action_id, "TrueValue")
            /\ current_step = << leaves[done + 1] >>
       ELSE /\ Returned = FinishedAdvancing
            /\ current_step = << >>

\* the second leaf of the flow root -> [2 -> [4], 3] is reported after the first
C1_Witness ==
  /\ Ungated /\ OnlyGeneric("StartWith") /\ Returning /\ call.arg = << >>
  /\ PreorderLeaves(step_id_root) = <<4, 3>>
  /\ current(call.stack0) = <<4>>
  /\ current_step = <<3>>
  /\ Returned.k = "ActionStartWith"

\* ------------------------------------------------------------------------
\* C3: exhaustion is permanent.  A call that returns FinishedAdvancing leaves
\* the cursor Done with an empty stack; a cursor that is Done when a call
\* starts stays Done with an empty stack; and advance(None) on a Done cursor
\* returns FinishedAdvancing having evaluated no gating check, started no
\* action and left StateData as it was.
\* ------------------------------------------------------------------------
C3_ExhaustionPermanent ==
  /\ ((Returning /\ Returned = FinishedAdvancing) \/ result = FinishedAdvancing)
       => (next_direction = "Done" /\ stack = << >>)
  /\ (state.tag # "Idle" /\ call.dir0 = "Done")
       => (next_direction = "Done" /\ stack = << >>)
  /\ (Returning /\ call.dir0 = "Done" /\ call.arg = << >>)
       => /\ Returned = FinishedAdvancing
          /\ call.checks = {}
          /\ call.invoked = {}
          /\ state_data = call.data0

\* advance(None) returns on an exhausted session that has actions and data
C3_Witness ==
  /\ Returning /\ call.dir0 = "Done" /\ call.arg = << >>
  /\ Returned = FinishedAdvancing
  /\ step_id_all \in DOMAIN actions
  /\ state_data # << >>
  /\ ~Ungated

\* ------------------------------------------------------------------------
\* C5: specific before generic.  When the generic action is about to be
\* started for a step that has a step-specific action, the action started
\* just before, in the same pass of the same call, was that specific action
\* for that step and it returned CannotFulfill; the generic action is started
\* with no action before it only for a step without a specific action.
\* ------------------------------------------------------------------------
C5_SpecificBeforeGeneric ==
  state.tag = "StartGeneric" =>
    IF state.step_id[1] \in DOMAIN actions
    THEN /\ call.last_action # << >>
         /\ call.last_action[1].tag = "StartSpecific"
         /\ call.last_action[1].id = actions[state.step_id[1]]
         /\ call.last_action[1].step = state.step_id[1]
         /\ call.last_action[1].res = "CannotFulfill"
    ELSE call.last_action = << >>

C5_Witness ==
  /\ state.tag = "StartGeneric"
  /\ state.step_id[1] \in DOMAIN actions
  /\ call.last_action # << >>
  /\ call.last_action[1].res = "CannotFulfill"

\* ------------------------------------------------------------------------
\* C6: auto-advance.  On a fresh session whose steps are all children of the
\* root, none gated, with a single generic action that returns Finished with
\* empty data, one advance(None) returns FinishedAdvancing, has started the
\* action for every step, and leaves StateData empty.
\* ------------------------------------------------------------------------
C6_AutoAdvance ==
  (/\ Linear /\ Ungated /\ OnlyGeneric("Finished")
   /\ Returning /\ call.arg = << >>
   /\ call.dir0 = "Down" /\ call.stack0 = <<step_id_root>>
   /\ call.data0 = StateData_new)
  => /\ Returned = FinishedAdvancing
     /\ state_data = StateData_new
     /\ {p[2] : p \in call.invoked} =
          (IF FlowSteps = {} THEN {step_id_root} ELSE FlowSteps)
     /\ {p[1] : p \in call.invoked} = {generic_action_id}

C6_Witness ==
  /\ Linear /\ Ungated /\ OnlyGeneric("Finished")
  /\ Returning /\ call.arg = << >>
  /\ call.dir0 = "Down" /\ call.data0 = StateData_new
  /\ FlowSteps = {2, 3, 4}
  /\ Returned = FinishedAdvancing
  /\ Cardinality(call.invoked) = Cardinality(FlowSteps)

\* ------------------------------------------------------------------------
\* C8: gating failures do not disturb the order.  With the entry check of
\* one step and the exit check of one step each failing once, the steps the
\* successful next calls return are the steps returned when nothing fails,
\* in the same order; a failing call returns the gating error; at most two
\* calls fail; and the traversal ends with Ok(None) once every step of the
\* failure-free run has been returned.
\* ------------------------------------------------------------------------
AlwaysOk == [step_id \in StepIds |-> Ok]

\* the steps next returns from cursor (st, dir) on when no check fails
RECURSIVE FailureFreeRun(_, _)
FailureFreeRun(st, dir) ==
  LET n == next(st, dir, AlwaysOk, AlwaysOk)
  IN IF n.res = "Some"
     THEN <<n.step[1]>> \o FailureFreeRun(n.stack, n.next_direction)
     ELSE << >>

C8_FailuresKeepOrder ==
  harness.on =>
    LET expected == FailureFreeRun(DepthFirstSearch_new(step_id_root).stack,
                                   DepthFirstSearch_new(step_id_root).next_direction)
        upcoming == next(stack, next_direction, harness_can_enter, harness_can_exit)
    IN /\ IsPrefix(harness.returned, expected)
       /\ harness.last = "None" => harness.returned = expected
       /\ harness.last = "Err" => harness.last_err = InvalidStateDataError
       /\ harness.errors <= 2
       /\ upcoming.res = "None" <=> (harness.returned = expected /\ upcoming.res # "Err")

\* both checks of step 3 of the flow root -> [2, 3, 4] failed once and the
\* traversal went on to its end
C8_Witness ==
  /\ harness.on
  /\ harness.fail_on_enter = <<3>> /\ harness.fail_on_exit = <<3>>
  /\ harness.errors = 2
  /\ harness.returned = <<2, 3, 4>>
  /\ harness.last = "None"

\* ------------------------------------------------------------------------
\* C2: advance(Some((s, data))) with s not the current step returns
\* Error::StepId(IdUnexpected(s)) and leaves StateData as it was when the
\* call started.
\* ------------------------------------------------------------------------
NamesOtherStep ==
  call.arg # << >> /\ current(call.stack0) # << call.arg[1].step_id >>

C2_MismatchRejected ==
  (Returning /\ NamesOtherStep) =>
    /\ Returned = ErrStepId("IdUnexpected", call.arg[1].step_id)
    /\ state_data = call.data0

\* ------------------------------------------------------------------------
\* C4: a Finished(data) whose identities are not exactly the declared
\* outputs of the step is answered with Error::InvalidStateDataError and
\* nothing of data is merged into StateData.
\* ------------------------------------------------------------------------
OutputsOf(step_id) ==
  {step_store[step_id].output_vars[i] :
     i \in 1..Len(step_store[step_id].output_vars)}

C4_ExactOutputsEnforced ==
  (/\ call.last_action # << >>
   /\ call.last_action[1].res = "Finished"
   /\ DOMAIN call.last_action[1].data # OutputsOf(call.last_action[1].step))
  => /\ state = Return(InvalidStateDataError)
     /\ state_data = call.last_action[1].before

\* ------------------------------------------------------------------------
\* C7: every advance call terminates: a call in progress eventually returns.
\* ------------------------------------------------------------------------
C7_AdvanceTerminates == (state.tag # "Idle") ~> (state.tag = "Idle")

\* ------------------------------------------------------------------------
\* C9 as claimed: whenever the last cursor call of an advance call failed
\* with a gating error (so the check still fails when the call returns), the
\* call returns that gating error, whether or not an action is registered.
\* ------------------------------------------------------------------------
GatingFailed == call.gate_err.k = "VarId" /\ call.gate_err.e = "IdMissing"

\* the check that failed fails again on the StateData the call leaves
StillFailing ==
  next(stack, next_direction, fn_can_enter(state_data),
       fn_can_exit(state_data)).err = call.gate_err

NamesCurrentStep ==
  call.arg # << >> /\ current(call.stack0) = << call.arg[1].step_id >>

C10_MergeThenGate ==
  (state.tag # "Idle" /\ NamesCurrentStep /\ step_output = << >>) =>
    /\ call.seen = << merge_from(call.data0, call.arg[1].data) >>
    /\ \A k \in DOMAIN call.arg[1].data :
         /\ k \in DOMAIN state_data
         /\ (state_data[k] = call.arg[1].data[k] \/ k \in call.action_keys)

\* the call returns a gating error and the supplied entry is in StateData
C10_Witness ==
  /\ Returning /\ NamesCurrentStep
  /\ GatingFailed /\ Returned = call.gate_err
  /\ call.data0 = StateData_new
  /\ call.arg[1].data = (1 :> 1)
  /\ state_data = (1 :> 1)
  /\ call.checks # {}

\* ------------------------------------------------------------------------
\* C11: in the SiblingOrUp direction next evaluates can_exit(current) before
\* can_enter(next sibling).  When the exit check fails, the sibling's entry
\* check is not evaluated in that call and the error returned is the exit
\* check's; when the sibling's entry check fails, the cursor stays and the
\* following call evaluates can_exit(current) and then can_enter(sibling)
\* again.
\* ------------------------------------------------------------------------
ExitError == ErrVarId("IdMissing", 2)
EnterError == ErrVarId("IdMissing", 1)

\* the last call started in the SiblingOrUp direction on a current step
LastCallFromSibling ==
  harness.prev.next_direction = "SiblingOrUp" /\ harness.prev.stack # << >>

\* the call before the last one ended on the failed entry check of a sibling
PrevCallRefusedSibling ==
  /\ harness.prev.res = "Err"
  /\ Len(harness.prev.checks) >= 2
  /\ harness.prev.checks[Len(harness.prev.checks)][1] = "enter"
  /\ harness.prev.checks[Len(harness.prev.checks) - 1][1] = "exit"

C11_ExitBeforeSiblingEntry ==
  harness.on =>
    \* what the calls made so far evaluated
    /\ LastCallFromSibling =>
         /\ harness.last_checks # << >>
         /\ harness.last_checks[1] = <<"exit", current(harness.prev.stack)[1]>>
         /\ (/\ harness.fail_on_exit = current(harness.prev.stack)
             /\ ~harness.prev.failed_exit) =>
              /\ harness.last = "Err"
              /\ Len(harness.last_checks) = 1
              /\ stack = harness.prev.stack
              /\ next_direction = "SiblingOrUp"
    /\ PrevCallRefusedSibling =>
         /\ LastCallFromSibling
         /\ Len(harness.last_checks) >= 2
         /\ harness.last_checks[1] =
              harness.prev.checks[Len(harness.prev.checks) - 1]
         /\ harness.last_checks[2] = harness.prev.checks[Len(harness.prev.checks)]
         /\ harness.last_checks[1][2] = current(harness.prev.stack)[1]
         /\ << harness.last_checks[2][2] >> =
              next_sibling_of_current(harness.prev.stack)
    \* the next call from the cursor reached, the two checks' errors told apart
    /\ (/\ next_direction = "SiblingOrUp"
        /\ stack # << >>
        /\ next_sibling_of_current(stack) # << >>) =>
         \A exit_fails, enter_fails \in BOOLEAN :
           LET c == current(stack)[1]
               sib == next_sibling_of_current(stack)[1]
               n == next(stack, next_direction,
                         [AlwaysOk EXCEPT ![sib] = IF enter_fails THEN EnterError ELSE Ok],
                         [AlwaysOk EXCEPT ![c] = IF exit_fails THEN ExitError ELSE Ok])
           IN /\ n.checks[1] = <<"exit", c>>
              /\ exit_fails =>
                   /\ n.res = "Err" /\ n.err = ExitError
                   /\ n.checks = << <<"exit", c>> >>
                   /\ n.stack = stack /\ n.next_direction = "SiblingOrUp"
              /\ (~exit_fails /\ enter_fails) =>
                   /\ n.res = "Err" /\ n.err = EnterError
                   /\ n.checks = << <<"exit", c>>, <<"enter", sib>> >>
                   /\ n.stack = stack /\ n.next_direction = "SiblingOrUp"
              /\ (~exit_fails /\ ~enter_fails) =>
                   /\ Len(n.checks) >= 2
                   /\ n.checks[2] = <<"enter", sib>>

\* the entry check of sibling 3 failed in the call before the last, and the
\* last call evaluated the exit check of 2 and the entry check of 3 again
C11_Witness ==
  /\ harness.on
  /\ PrevCallRefusedSibling
  /\ harness.prev.checks = << <<"exit", 2>>, <<"enter", 3>> >>
  /\ harness.last_checks[1] = <<"exit", 2>>
  /\ harness.last_checks[2] = <<"enter", 3>>
  /\ harness.last = "Some"
  /\ harness.returned = <<2, 3>>

\* ------------------------------------------------------------------------
\* C12: whenever advance starts an action for step S, the state-data view
\* and the var view handed to it allow exactly inputs(S) \cup outputs(S);
\* for every other identity both views report absence, even when the
\* session holds a Var and a value under it, and sessions that differ only
\* outside inputs(S) \cup outputs(S) give the action the same views.
\* ------------------------------------------------------------------------
InputsOf(step_id) ==
  IF step_store[step_id].input_vars = << >> THEN {}
  ELSE {step_store[step_id].input_vars[1][i] :
          i \in 1..Len(step_store[step_id].input_vars[1])}

VarNames == {"var1", "var2", "none"}

\* var stores with any of the Vars missing or of another kind
VarStoreVariants ==
  {[id_to_object |-> [v \in D |-> TestObject_new(v, kind[v])],
    name_to_id |-> Session_var_store.name_to_id,
    next_id |-> Session_var_store.next_id] :
      D \in SUBSET VarIds, kind \in [VarIds -> {"StringVar", "BoolVar"}]}

\* everything an action can read from a state-data view
DataAnswers(step_data) ==
  [get |-> [v \in VarIds |-> StateDataFiltered_get(step_data, v)],
   contains |-> [v \in VarIds |-> StateDataFiltered_contains(step_data, v)]]

\* everything an action can read from a var view
VarAnswers(var_view) ==
  [var |-> [v \in VarIds |-> ObjectStoreFiltered_get(var_view, v)],
   name |-> [v \in VarIds |-> ObjectStoreFiltered_name_from_id(var_view, v)],
   id |-> [n \in VarNames |-> ObjectStoreFiltered_id_from_name(var_view, n)],
   by_name |-> [n \in VarNames |-> ObjectStoreFiltered_get_by_name(var_view, n)]]

C12_ActionsIsolated ==
  call.last_action # << >> =>
    LET la == call.last_action[1]
        allowed == InputsOf(la.step) \cup OutputsOf(la.step)
        seen_data == DataAnswers(la.step_data)
        seen_vars == VarAnswers(la.vars)
    IN /\ la.step_data.allowed_var_ids = allowed
       /\ la.vars.allowed_ids = allowed
       /\ la.step_data.state_data = la.before
       /\ la.vars.object_store = Session_var_store
       /\ \A v \in VarIds \ allowed :
            /\ seen_data.get[v] = << >>
            /\ ~seen_data.contains[v]
            /\ seen_vars.var[v] = << >>
            /\ seen_vars.name[v] = {<< >>}
            /\ \A n \in VarNames :
                 /\ seen_vars.id[n] # << v >>
                 /\ seen_vars.by_name[n] = << >> \/ seen_vars.by_name[n][1].id # v
       /\ \A v \in allowed :
            /\ seen_data.get[v] = StateData_get(la.before, v)
            /\ seen_vars.var[v] = ObjectStore_get(Session_var_store, v)
       /\ \A d \in AllData :
            (\A v \in allowed : StateData_get(d, v) = StateData_get(la.before, v))
            => DataAnswers(StateDataFiltered_new(d, la.step_data.allowed_var_ids))
                 = seen_data
       /\ \A vs \in VarStoreVariants :
            (\A v \in allowed :
               ObjectStore_get(vs, v) = ObjectStore_get(Session_var_store, v))
            => VarAnswers(ObjectStoreFiltered_new(vs, la.vars.allowed_ids))
                 = seen_vars

\* an action is started for a step that declares only variable 1 while the
\* session holds a value under variable 2
C12_Witness ==
  /\ call.last_action # << >>
  /\ InputsOf(call.last_action[1].step) \cup OutputsOf(call.last_action[1].step) = {1}
  /\ 2 \in DOMAIN call.last_action[1].before
  /\ ObjectStore_get(Session_var_store, 2) # << >>
  /\ StateDataFiltered_get(call.last_action[1].step_data, 2) = << >>

\* ------------------------------------------------------------------------
\* C13: for every store content and allowed set, get(id), name_from_id(id),
\* id_from_name(name) and get_by_name(name) of an ObjectStoreFiltered, and
\* get and contains of a StateDataFiltered, answer absence when the
\* identity concerned is not allowed and otherwise answer what the
\* underlying store answers; no lookup changes the underlying store.
\* ------------------------------------------------------------------------
\* the identity a name lookup is about is the one the name stands for
NameAllowed(store, allowed_ids, name) ==
  /\ id_from_name(store, name) # << >>
  /\ id_from_name(store, name)[1] \in allowed_ids

C13_FilteredLookups ==
  /\ ("viewed_store" \in DOMAIN harness /\ harness.last.op = "view") =>
       LET l == harness.last
           under == l.store_before
       IN /\ l.get = IF l.id \in l.allowed_ids
                     THEN ObjectStore_get(under, l.id) ELSE << >>
          /\ l.name_from_id = IF l.id \in l.allowed_ids
                              THEN name_from_id(under, l.id) ELSE {<< >>}
          /\ l.id_from_name = IF NameAllowed(under, l.allowed_ids, l.name)
                              THEN id_from_name(under, l.name) ELSE << >>
          /\ l.get_by_name = IF NameAllowed(under, l.allowed_ids, l.name)
                             THEN get_by_name(under, l.name) ELSE << >>
          /\ harness.viewed_store = under
          /\ harness.viewed_data = l.data_before
  /\ ("viewed_data" \in DOMAIN harness /\ harness.last.op = "data_view") =>
       LET l == harness.last
           under == l.data_before
       IN /\ l.get = IF l.var_id \in l.allowed_var_ids
                     THEN StateData_get(under, l.var_id) ELSE << >>
          /\ l.contains = IF l.var_id \in l.allowed_var_ids
                          THEN contains(under, l.var_id) ELSE FALSE
          /\ harness.viewed_data = under
          /\ harness.viewed_store = l.store_before

\* the store holds "t1" under identity 0 and an object under identity 1;
\* through a view that allows 0 only, 1 is absent and "t1" is found
C13_Witness ==
  /\ "viewed_store" \in DOMAIN harness
  /\ harness.last.op = "view"
  /\ harness.last.allowed_ids = {0}
  /\ harness.last.id = 1 /\ harness.last.name = "t1"
  /\ ObjectStore_get(harness.viewed_store, 1) # << >>
  /\ harness.last.get = << >>
  /\ harness.last.id_from_name = << 0 >>
  /\ harness.last.get_by_name = << TestObject_new(0, 100) >>

\* ------------------------------------------------------------------------
\* C14: can_enter(state) is Ok when the step declares no inputs or every
\* declared input is present in state; otherwise it is IdMissing(v) with v
\* the first declared input, in declared order, absent from state.  It
\* changes neither state nor the step.
\* ------------------------------------------------------------------------
IdMissing(v) == [k |-> "IdError", e |-> "IdMissing", id |-> v]

\* the positions of the list ids whose identity is absent from data
AbsentAt(ids, data) == {i \in 1..Len(ids) : ids[i] \notin DOMAIN data}

FirstOf(positions) == CHOOSE i \in positions : \A j \in positions : i <= j

DeclaredInputs(step) ==
  IF step.input_vars = << >> THEN << >> ELSE step.input_vars[1]

C14_CanEnter ==
  ("step" \in DOMAIN harness /\ harness.last.op = "can_enter") =>
    LET l == harness.last
        absent == AbsentAt(DeclaredInputs(l.step), l.data)
    IN /\ absent = {} => l.res = Ok
       /\ absent # {} => l.res = IdMissing(DeclaredInputs(l.step)[FirstOf(absent)])
       /\ harness.step = l.step
       /\ harness.data = l.data

\* both declared inputs are absent and the first in declared order, 2, is
\* the one reported
C14_Witness ==
  /\ "step" \in DOMAIN harness
  /\ harness.last.op = "can_enter"
  /\ harness.last.step.input_vars = << <<2, 1>> >>
  /\ harness.last.data = StateData_new
  /\ harness.last.res = IdMissing(2)

\* ------------------------------------------------------------------------
\* C15: can_exit(state) is Ok if and only if can_enter(state) is Ok and
\* every declared output is present in state; when it fails, a missing
\* input is reported in preference to a missing output, and otherwise the
\* error is IdMissing of the first declared output absent from state.
\* ------------------------------------------------------------------------
C15_CanExit ==
  ("step" \in DOMAIN harness /\ harness.last.op = "can_exit") =>
    LET l == harness.last
        absent_in == AbsentAt(DeclaredInputs(l.step), l.data)
        absent_out == AbsentAt(l.step.output_vars, l.data)
    IN /\ l.res = Ok <=> (can_enter(l.step, l.data) = Ok /\ absent_out = {})
       /\ absent_in # {} =>
            /\ l.res = can_enter(l.step, l.data)
            /\ l.res = IdMissing(DeclaredInputs(l.step)[FirstOf(absent_in)])
       /\ (absent_in = {} /\ absent_out # {}) =>
            l.res = IdMissing(l.step.output_vars[FirstOf(absent_out)])
       /\ harness.step = l.step
       /\ harness.data = l.data

\* input 1 and output 2 are both absent and the input is the one reported
C15_Witness ==
  /\ "step" \in DOMAIN harness
  /\ harness.last.op = "can_exit"
  /\ harness.last.step.input_vars = << <<1>> >>
  /\ harness.last.step.output_vars = <<2>>
  /\ harness.last.data = StateData_new
  /\ harness.last.res = IdMissing(1)

\* ------------------------------------------------------------------------
\* C20: merge_from(src) leaves the StateData holding the union of the
\* identities of both; every identity of src has src's value, whether or
\* not it was there before, and every other identity keeps its value.  The
\* merge cannot fail (no value is validated again), merging an empty
\* StateData changes nothing, and merging the same src twice is the same
\* as merging it once.
\* ------------------------------------------------------------------------
C20_MergeRightBiased ==
  ("step" \in DOMAIN harness /\ harness.last.op = "merge_from") =>
    LET l == harness.last
        after == harness.data
    IN /\ DOMAIN after = (DOMAIN l.data) \cup (DOMAIN l.src)
       /\ \A k \in DOMAIN l.src : after[k] = l.src[k]
       /\ \A k \in (DOMAIN l.data) \ (DOMAIN l.src) : after[k] = l.data[k]
       /\ l.res = Ok
       /\ l.src = StateData_new => after = l.data
       /\ merge_from(after, l.src) = after
       /\ harness.step = l.step

\* variable 1 was 1 and is 2 after the merge, variable 2 came with src
C20_Witness ==
  /\ "step" \in DOMAIN harness
  /\ harness.last.op = "merge_from"
  /\ 1 \in DOMAIN harness.last.data
  /\ 2 \notin DOMAIN harness.last.data
  /\ harness.last.data[1] = 1
  /\ DOMAIN harness.last.src = {1, 2}
  /\ harness.last.src[1] = 2
  /\ harness.data[1] = 2
  /\ harness.data[2] = harness.last.src[2]

\* ------------------------------------------------------------------------
\* The calls on an ObjectStore, as SpecStore records them
\* ------------------------------------------------------------------------
StoreCalled(ops) == "store" \in DOMAIN harness /\ harness.last.op \in ops

InsertOps == {"insert_new", "insert_new_named"}
NamedOps == {"register_named", "insert_new_named"}
RegisterOps == {"register", "register_named"} \cup InsertOps

\* the objects and the names of two stores are the same
SameContents(a, b) ==
  a.id_to_object = b.id_to_object /\ a.name_to_id = b.name_to_id

\* the last call had an object to register: it was handed one, or its
\* factory made one
HadObject == harness.last.op \in InsertOps => harness.last.cb.k # "Fail"

\* the factory of the last insert made its object with the reserved identity
MadeReserved ==
  harness.last.cb.k # "Fail" /\ harness.last.object.id = harness.last.handed[1]

\* ------------------------------------------------------------------------
\* C16: every identity returned by reserve_id or passed to an insert
\* factory is strictly greater than every identity the store handed out
\* before, whatever calls, failing ones included, came in between.
\* ------------------------------------------------------------------------
C16_IdsNeverReused ==
  (/\ StoreCalled({"reserve_id"} \cup InsertOps)
   /\ harness.last.handed_before # << >>) =>
    harness.last.handed[1] > harness.last.handed_before[1]

\* ------------------------------------------------------------------------
\* C17: a call of register, register_named, insert_new or insert_new_named
\* with an object whose identity is already present fails and leaves the
\* objects and the names of the store exactly as before.  The error is
\* IdAlreadyExists(that identity) for register, for register_named with a
\* new name, and for insert_new / insert_new_named whose factory used the
\* reserved identity (with a new name); it is NameAlreadyExists(name) when
\* the name is present too, and IdNotReserved(that identity) when an insert
\* factory made the object with another identity than the reserved one.
\* ------------------------------------------------------------------------
IdPresentBefore ==
  /\ StoreCalled(RegisterOps)
  /\ HadObject
  /\ harness.last.object.id \in DOMAIN harness.last.before.id_to_object

C17_NeverReplaces ==
  IdPresentBefore =>
    LET l == harness.last
        name_taken == l.op \in NamedOps /\ l.name \in DOMAIN l.before.name_to_id
    IN /\ SameContents(harness.store, l.before)
       /\ l.res = IF l.op \in InsertOps /\ ~MadeReserved
                  THEN IdErr("IdNotReserved", l.object.id)
                  ELSE IF name_taken
                  THEN NameErr("NameAlreadyExists", l.name)
                  ELSE IdErr("IdAlreadyExists", l.object.id)

\* C17 as stated: the error is IdAlreadyExists(that identity) in every case
C17_AlwaysIdAlreadyExists ==
  IdPresentBefore =>
    /\ SameContents(harness.store, harness.last.before)
    /\ harness.last.res = IdErr("IdAlreadyExists", harness.last.object.id)

\* insert_new reserves an identity that was registered by hand before, and
\* fails with IdAlreadyExists
C17_Witness ==
  /\ IdPresentBefore
  /\ harness.last.op = "insert_new"
  /\ MadeReserved
  /\ harness.last.handed_before = << >>
  /\ harness.last.res = IdErr("IdAlreadyExists", harness.last.handed[1])

\* ------------------------------------------------------------------------
\* C18: insert_new / insert_new_named fail with IdNotReserved(identity of
\* the object made) when the factory makes an object with another identity
\* than the one reserved for the call, and with the factory's own error
\* when the factory fails; in both cases no object and no name is added.
\* ------------------------------------------------------------------------
C18_InsertGuard ==
  (StoreCalled(InsertOps) /\ ~MadeReserved) =>
    LET l == harness.last
    IN /\ l.cb.k = "Fail" => l.res = cb_call(l.cb, l.handed[1]).err
       /\ l.cb.k # "Fail" => l.res = IdErr("IdNotReserved", l.object.id)
       /\ SameContents(harness.store, l.before)

\* the factory made an object with an identity that is not in the store and
\* is not the reserved one, under a name that is not in the store
C18_Witness ==
  /\ StoreCalled({"insert_new_named"})
  /\ ~MadeReserved
  /\ harness.last.cb.k = "OtherId"
  /\ harness.last.object.id \notin DOMAIN harness.last.before.id_to_object
  /\ harness.last.name \notin DOMAIN harness.last.before.name_to_id
  /\ harness.last.res = IdErr("IdNotReserved", harness.last.object.id)

\* ------------------------------------------------------------------------
\* C19: register_named, and insert_new_named whose factory made its object
\* with the reserved identity, fail with NameAlreadyExists(name) when the
\* name is already present, and the objects and names stay as they were;
\* when the name is new but the identity of the object is present they fail
\* with IdAlreadyExists and the name is not added.  An insert_new_named
\* whose factory fails or uses another identity fails with the factory's
\* error or IdNotReserved whether or not the name is present, and nothing
\* is stored either.
\* ------------------------------------------------------------------------
NameTaken ==
  /\ StoreCalled(NamedOps)
  /\ harness.last.name \in DOMAIN harness.last.before.name_to_id

NameNewIdTaken ==
  /\ StoreCalled(NamedOps)
  /\ HadObject
  /\ harness.last.name \notin DOMAIN harness.last.before.name_to_id
  /\ harness.last.object.id \in DOMAIN harness.last.before.id_to_object

C19_NamesUnique ==
  LET l == harness.last
      reached_register == l.op = "register_named" \/ MadeReserved
  IN /\ NameTaken =>
          /\ SameContents(harness.store, l.before)
          /\ reached_register => l.res = NameErr("NameAlreadyExists", l.name)
          /\ ~reached_register =>
               l.res = IF l.cb.k = "Fail" THEN cb_call(l.cb, l.handed[1]).err
                       ELSE IdErr("IdNotReserved", l.object.id)
     /\ NameNewIdTaken =>
          /\ SameContents(harness.store, l.before)
          /\ reached_register => l.res = IdErr("IdAlreadyExists", l.object.id)
          /\ ~reached_register => l.res = IdErr("IdNotReserved", l.object.id)

\* C19 as stated: a name already present always gives NameAlreadyExists,
\* a new name with a present identity always IdAlreadyExists
C19_AlwaysNameAlreadyExists ==
  /\ NameTaken =>
       /\ SameContents(harness.store, harness.last.before)
       /\ harness.last.res = NameErr("NameAlreadyExists", harness.last.name)
  /\ NameNewIdTaken =>
       /\ SameContents(harness.store, harness.last.before)
       /\ harness.last.res = IdErr("IdAlreadyExists", harness.last.object.id)

\* a second insert_new_named under a name that is present, with a factory
\* that uses the reserved identity, which is not in the store
C19_Witness ==
  /\ NameTaken
  /\ harness.last.op = "insert_new_named"
  /\ MadeReserved
  /\ harness.last.object.id \notin DOMAIN harness.last.before.id_to_object
  /\ harness.last.res = NameErr("NameAlreadyExists", harness.last.name)
  /\ harness.store.name_to_id = harness.last.before.name_to_id

\* ------------------------------------------------------------------------
\* C21: for every Var kind and every Value kind, validate_val_type and
\* ValidVal::try_new succeed if and only if the kind of the value is the
\* kind the Var is declared with, whatever the payload; otherwise they fail
\* with WrongType, and a StateData::insert that fails this way leaves the
\* StateData unchanged.
\* ------------------------------------------------------------------------
KindsMatch(var, val) ==
  \/ var.kind = "StringVar" /\ val.kind = "StringValue"
  \/ var.kind = "EmailVar" /\ val.kind = "EmailValue"
  \/ var.kind = "TrueVar" /\ val.kind = "TrueValue"
  \/ var.kind = "UriVar" /\ val.kind = "UriValue"
  \/ var.kind = "BoolVar" /\ val.kind = "BoolValue"

C21_KindValidation ==
  ("vdata" \in DOMAIN harness /\ harness.last.op \in {"validate", "insert"}) =>
    LET l == harness.last
    IN /\ l.res.ok <=> KindsMatch(l.var, l.val)
       /\ l.valid.res.ok <=> KindsMatch(l.var, l.val)
       /\ ~KindsMatch(l.var, l.val) =>
            /\ l.res = InvalidValue("WrongType")
            /\ l.valid.res = InvalidValue("WrongType")
            /\ l.valid.valid = << >>
            /\ harness.vdata = l.before
       /\ l.op = "validate" => harness.vdata = l.before
       /\ \A payload \in Payloads :
            validate_val_type(l.var, [l.val EXCEPT !.val = payload]) = l.res

\* an EmailValue with a well-formed address is inserted for a StringVar
\* into a StateData that holds a value: refused, the StateData unchanged
C21_Witness ==
  /\ "vdata" \in DOMAIN harness
  /\ harness.last.op = "insert"
  /\ harness.last.var.kind = "StringVar"
  /\ harness.last.val = [kind |-> "EmailValue", val |-> "a@b.com"]
  /\ harness.last.res = InvalidValue("WrongType")
  /\ harness.last.before # StateData_new
  /\ harness.vdata = harness.last.before

\* ------------------------------------------------------------------------
\* C22: EmailValue::try_new and EmailVar::value_from_str accept a text only
\* if it has a non-empty local part before '@' and a domain with a dot
\* after it; the empty text fails with Empty and every other refused text
\* with BadFormat; 'a@b.com' is accepted, 'not-an-email' and 'ab.com' fail
\* with BadFormat.
\* ------------------------------------------------------------------------
\* the positions of '@' in a text
AtSigns(text) == {i \in 1..Len(text) : text[i] = "@"}

HasLocalPartAndDottedDomain(text) ==
  \E i \in AtSigns(text) :
    /\ i > 1
    /\ \E j \in (i + 1)..Len(text) : text[j] = "."

C22_EmailValidation ==
  ("text" \in DOMAIN harness /\ harness.last.op \in {"try_new", "value_from_str"}) =>
    LET l == harness.last
    IN /\ l.res.res.ok => HasLocalPartAndDottedDomain(harness.text)
       /\ harness.text = << >> => l.res.res = InvalidValue("Empty")
       /\ (harness.text # << >> /\ ~l.res.res.ok) =>
            l.res.res = InvalidValue("BadFormat")
       /\ harness.text = Str_a_at_b_com => l.res.res.ok
       /\ harness.text \in {Str_not_an_email, Str_ab_com} =>
            l.res.res = InvalidValue("BadFormat")

\* ------------------------------------------------------------------------
\* C23: every ActionObjectStore operation tries to take the lock without
\* blocking.  While one operation holds it (start_action for the whole
\* start of the action), any other operation, a read-only lookup included,
\* returns Error::Other at once and leaves the registry unchanged (no
\* identity consumed, no object added); an operation that got the lock
\* always runs to its end, so nothing blocks or deadlocks.
\* ------------------------------------------------------------------------
AosHolders == {t \in Threads : harness.running[t] # NoAosCall}

C23_NonBlockingLock ==
  "aos" \in DOMAIN harness =>
    /\ Cardinality(AosHolders) <= 1
    /\ \A t \in Threads : t \in AosHolders <=> harness.aos.lock = << t >>
    /\ \A t \in AosHolders : ENABLED AosClosure(t)
    /\ \A t \in Threads \ AosHolders : ENABLED AosTryWrite(t)
    /\ harness.last.op = "try_write" =>
         /\ harness.last.before.lock = << >>
         /\ harness.aos.object_store = harness.last.before.object_store
    /\ harness.last.op = "closure" =>
         harness.last.before.lock = << harness.last.thread >>
    /\ harness.last.op = "contended" =>
         /\ harness.last.before.lock # << >>
         /\ harness.last.res = AosOther
         /\ harness.aos = harness.last.before

\* a lookup by name on thread 2 while start_action on thread 1 holds the
\* lock for an action that is in the registry
C23_Witness ==
  /\ "aos" \in DOMAIN harness
  /\ harness.last.op = "contended"
  /\ harness.last.thread = 2
  /\ harness.last.c.op = "id_from_name"
  /\ harness.last.res = AosOther
  /\ harness.running[1].op = "start_action"
  /\ ObjectStore_get(harness.aos.object_store, harness.running[1].id) # << >>
  /\ harness.aos.object_store.next_id = 1

\* ------------------------------------------------------------------------
\* C24: a SetDataAction created with after_attempt = n returns
\* CannotFulfill on exactly its first n calls of start and Finished with
\* the data it was created with on every call after that (on the first
\* call when n = 0); its counter never exceeds n.
\* ------------------------------------------------------------------------
C24_SetDataRetryCounter ==
  "set_data" \in DOMAIN harness =>
    /\ harness.set_data.count <= harness.created.after_attempt
    /\ harness.set_data.data = harness.created.data
    /\ harness.set_data.after_attempt = harness.created.after_attempt
    /\ harness.last.op = "start" =>
         harness.last.res =
           IF harness.starts <= harness.created.after_attempt
           THEN CannotFulfill
           ELSE Finished(harness.created.data)

\* the third call of start of an action created with after_attempt = 2 is
\* the first that returns Finished
C24_Witness ==
  /\ "set_data" \in DOMAIN harness
  /\ harness.created.after_attempt = 2
  /\ harness.created.data # StateData_new
  /\ harness.starts = 3
  /\ harness.last.res = Finished(harness.created.data)
  /\ harness.set_data.count = 2

\* ------------------------------------------------------------------------
\* The last action started in the current pass of the call
\* ------------------------------------------------------------------------
LastAction == call.last_action[1]

LastActionWas(tag, res) ==
  /\ call.last_action # << >>
  /\ LastAction.tag = tag
  /\ LastAction.res = res

HasGeneric == step_id_all \in DOMAIN actions

\* ------------------------------------------------------------------------
\* C25: when the step-specific action returns CannotFulfill and a generic
\* action is registered, the generic action is started for the same step in
\* the same call; advance returns ActionCannotFulfill if and only if the
\* last action it started in the call was the generic action and it
\* returned CannotFulfill, a carried gating error being dropped.
\* ------------------------------------------------------------------------
C25_CannotFulfillResolution ==
  /\ (LastActionWas("StartSpecific", "CannotFulfill") /\ HasGeneric) =>
       /\ state.tag \in {"GetGenericAction", "StartGeneric"}
       /\ state.step_id = << LastAction.step >>
       /\ state.tag = "StartGeneric" => state.action_id = << actions[step_id_all] >>
  /\ call.last_action # << >> /\ LastAction.tag = "StartGeneric" =>
       /\ LastAction.id = actions[step_id_all]
       /\ <<LastAction.id, LastAction.step>> \in call.invoked
       /\ LastAction.step \in DOMAIN actions =>
            <<actions[LastAction.step], LastAction.step>> \in call.invoked
  /\ Returning =>
       (Returned = ActionCannotFulfill
          <=> LastActionWas("StartGeneric", "CannotFulfill"))

\* the specific action and then the generic action could not fulfill for a
\* step whose gating check had failed: the call returns ActionCannotFulfill
C25_Witness ==
  /\ Returning
  /\ Returned = ActionCannotFulfill
  /\ LastActionWas("StartGeneric", "CannotFulfill")
  /\ LastAction.step \in DOMAIN actions
  /\ <<actions[LastAction.step], LastAction.step>> \in call.invoked
  /\ call.gate_err.k = "VarId"

\* ------------------------------------------------------------------------
\* C26 as stated: with no actions registered, an advance(None) that returns
\* a gating error leaves the cursor at the step whose check failed.
\* ------------------------------------------------------------------------
NoActions == DOMAIN actions = {}

C26_CursorAtStepWhoseCheckFailed ==
  (Returning /\ NoActions /\ call.arg = << >> /\ call.failed # << >>) =>
    current_step = << call.failed[1][2] >>

\* ------------------------------------------------------------------------
\* C26 amended: when the current step has neither a step-specific nor a
\* generic action registered, advance returns the carried gating error if
\* the cursor call failed and otherwise calls the cursor again; with no
\* actions registered at all an advance(None) returns FinishedAdvancing,
\* every check it evaluated having passed, or the error of the first check
\* that failed, and the cursor is left where it was before that check: at
\* the step whose exit check failed, or at the step the cursor was on when
\* the entry of its first child or next sibling was refused.
\* ------------------------------------------------------------------------
NoActionFor(step_id) ==
  step_id[1] \notin DOMAIN actions /\ ~HasGeneric

RefusedFrom(step_id) ==
  \/ first_child_of(step_id) = << call.failed[1][2] >>
  \/ /\ Len(stack) >= 2
     /\ next_sibling_of_current(stack) = << call.failed[1][2] >>

C26_NoActionStep ==
  (state.tag = "GetGenericAction" /\ NoActionFor(state.step_id)) =>
    /\ call.last_action = << >>
    /\ state.error = call.gate_err
    /\ state' = IF call.gate_err.k # "Ok" THEN Return(call.gate_err)
                ELSE AdvanceStep
    /\ call' = call

C26_NoActionsAtAll ==
  (Returning /\ NoActions /\ call.arg = << >>) =>
    /\ call.invoked = {}
    /\ Returned = IF call.gate_err.k = "Ok" THEN FinishedAdvancing
                  ELSE call.gate_err
    /\ call.gate_err.k = "Ok" => (call.failed = << >> /\ stack = << >>)
    /\ call.gate_err.k # "Ok" =>
         /\ call.failed # << >>
         /\ current_step # << >>
         /\ IF call.failed[1][1] = "exit"
            THEN /\ current_step = << call.failed[1][2] >>
                 /\ fn_can_exit(state_data)[current_step[1]] = call.gate_err
            ELSE /\ current_step # << call.failed[1][2] >>
                 /\ RefusedFrom(current_step[1])
                 /\ fn_can_enter(state_data)[call.failed[1][2]] = call.gate_err

C26_NoActionToRun ==
  []C26_NoActionsAtAll /\ [][C26_NoActionStep]_vars

\* with no actions registered an advance(None) returns the error of a
\* refused entry with the cursor on the step before the refused one
C26_Witness ==
  /\ Returning /\ NoActions /\ call.arg = << >>
  /\ Returned = call.gate_err
  /\ call.failed # << >>
  /\ call.failed[1][1] = "enter"
  /\ current_step # << >>
  /\ current_step # << call.failed[1][2] >>

\* ------------------------------------------------------------------------
\* C27: when the step-specific action returns CannotFulfill and no generic
\* action is registered, advance does not return ActionCannotFulfill: it
\* returns the carried gating error if there is one and otherwise goes back
\* to advancing the cursor, whose next call leaves the step behind when the
\* exit check of the step passes, unless the entry of its next sibling is
\* refused.
\* ------------------------------------------------------------------------
NextCursorCall ==
  next(stack, next_direction, fn_can_enter(state_data), fn_can_exit(state_data))

C28_StartWithEndsCall ==
  (call.last_action # << >> /\ LastAction.res = "StartWith") =>
    /\ state = Done(ActionStartWith(LastAction.id, LastAction.val))
    /\ Returning
    /\ Returned # call.gate_err
    /\ LastAction.id = IF LastAction.tag = "StartSpecific"
                       THEN actions[LastAction.step]
                       ELSE actions[step_id_all]
    /\ LastAction.val \in {"TrueValue", "AnyValue"}
    /\ state_data = LastAction.before
    /\ current_step = << LastAction.step >>
    /\ <<LastAction.id, LastAction.step>> \in call.invoked

\* an action started after a failed gating check returned StartWith: the
\* call returns ActionStartWith and the gating error is not reported
C28_Witness ==
  /\ call.last_action # << >>
  /\ LastAction.res = "StartWith"
  /\ GatingFailed
  /\ Returning
  /\ Returned = ActionStartWith(LastAction.id, LastAction.val)

\* ------------------------------------------------------------------------
\* C30: when an action returns Finished(data) and data passes the
\* output-shape check, data is merged into the session's StateData and the
\* call goes back to the cursor, whose next call reads the merged StateData;
\* when the exit check of the step had failed and the merged StateData holds
\* every output of the step, that exit check now passes and the cursor
\* leaves the step unless the entry of its next sibling is refused.
\* ------------------------------------------------------------------------
FinishedAccepted ==
  /\ call.last_action # << >>
  /\ LastAction.res = "Finished"
  /\ contains_only(LastAction.data, OutputsOf(LastAction.step))

C30_FinishedKeepsGoing ==
  FinishedAccepted =>
    /\ state = AdvanceStep
    /\ step_output = << >>
    /\ state_data = merge_from(LastAction.before, LastAction.data)
    /\ \A k \in DOMAIN LastAction.data : state_data[k] = LastAction.data[k]
    /\ current_step = << LastAction.step >>
    /\ (/\ call.failed = << <<"exit", LastAction.step>> >>
        /\ OutputsOf(LastAction.step) \subseteq DOMAIN state_data) =>
         /\ fn_can_exit(LastAction.before)[LastAction.step] = call.gate_err
         /\ fn_can_exit(state_data)[LastAction.step].k = "Ok"
         /\ \A n \in {NextCursorCall} :
              (\E i \in 1..Len(n.stack) : n.stack[i] = LastAction.step) =>
                /\ n.res = "Err"
                /\ next_sibling_of_current(stack) # << >>
                /\ n.err = fn_can_enter(state_data)[next_sibling_of_current(stack)[1]]

\* the exit check of a step failed for a missing output, the action started
\* for the step returned Finished with that output, and the next cursor call
\* of the same advance moves on to another step
C30_Witness ==
  /\ FinishedAccepted
  /\ GatingFailed
  /\ call.failed = << <<"exit", LastAction.step>> >>
  /\ call.gate_err.id \in DOMAIN LastAction.data
  /\ call.gate_err.id \notin DOMAIN LastAction.before
  /\ state.tag = "AdvanceStep"
  /\ NextCursorCall.res = "Some"
  /\ NextCursorCall.step # << LastAction.step >>

\* ------------------------------------------------------------------------
\* C29: set_action_for_step accepts identities that are in no store; when
\* the action mapped to the current step, or the generic action, is not in
\* the action store, advance returns Error::ActionId(IdMissing) at once:
\* the generic action is not tried after a missing specific one, the
\* carried gating error is not reported and nothing is merged; a step
\* identity missing from the step store makes call_action return
\* Error::StepId(IdMissing) before the action is looked up.  The cursor
\* never stands on such a step: the entry check of a substep that is not in
\* the step store fails with StepId(IdMissing).
\* ------------------------------------------------------------------------
LookupFailed ==
  /\ call.last_action # << >>
  /\ LastAction.id \notin DOMAIN action_store

C29_LookupErrorsAreHard ==
  /\ LookupFailed =>
       /\ state = Return(ErrActionId("IdMissing", LastAction.id))
       /\ LastAction.id = IF LastAction.tag = "StartSpecific"
                          THEN actions[LastAction.step]
                          ELSE actions[step_id_all]
       /\ state_data = LastAction.before
       /\ <<LastAction.id, LastAction.step>> \notin call.invoked
  /\ \A s \in StepIds \ DOMAIN step_store, a \in DOMAIN action_store :
       \A r \in Action_start(action_store[a]) :
         /\ call_action(a, s, r).ok = FALSE
         /\ call_action(a, s, r).err = ErrStepId("IdMissing", s)
         /\ arm_Start("StartSpecific", << a >>, << s >>, Ok, call_action(a, s, r))
              = Return(ErrStepId("IdMissing", s))
         /\ arm_Start_state_data(call_action(a, s, r)) = state_data
  /\ \A s \in StepIds \ DOMAIN step_store :
       /\ current_step # << s >>
       /\ fn_can_enter(state_data)[s] = ErrStepId("IdMissing", s)
  /\ \A s \in StepIds \ DOMAIN actions, a \in {specific_action_id, generic_action_id} :
       set_action_for_step(actions, a, << s >>) = (s :> a) @@ actions

\* the specific action of the current step is mapped but not in the action
\* store while a generic action is registered: the call returns
\* ActionId(IdMissing) without trying the generic action, after a gating
\* check had failed
C29_Witness ==
  /\ LookupFailed
  /\ LastAction.tag = "StartSpecific"
  /\ HasGeneric
  /\ actions[step_id_all] \in DOMAIN action_store
  /\ GatingFailed
  /\ Returning
  /\ Returned = ErrActionId("IdMissing", specific_action_id)
  /\ call.invoked = {}

\* ------------------------------------------------------------------------
\* C31: when the cursor call of an advance call fails, the action is
\* resolved and started for the step on top of the stack after the failed
\* call: the step whose exit check failed, or, for a failed entry check, the
\* step the cursor is still on (the parent of the denied first child or the
\* sibling not yet left), never the step whose entry was denied.
\* ------------------------------------------------------------------------
ResolvingAction ==
  state.tag \in {"GetSpecificAction", "GetGenericAction",
                 "StartSpecific", "StartGeneric"}

C31_ActionStepAfterGatingFailure ==
  (call.gate_err.k # "Ok" /\ call.failed # << >>) =>
    /\ current_step # << >>
    /\ IF call.failed[1][1] = "exit"
       THEN current_step = << call.failed[1][2] >>
       ELSE /\ current_step # << call.failed[1][2] >>
            /\ RefusedFrom(current_step[1])
            /\ ~(\E i \in 1..Len(stack) : stack[i] = call.failed[1][2])
    /\ ResolvingAction =>
         /\ state.step_id = current_step
         /\ state.error = call.gate_err
    /\ call.last_action # << >> =>
         /\ << LastAction.step >> = current_step
         /\ LastAction.step # call.failed[1][2] \/ call.failed[1][1] = "exit"

\* the entry of the first substep of the session root was denied and an
\* action was started for the root
C31_Witness ==
  /\ call.gate_err.k # "Ok"
  /\ call.failed = << <<"enter", 2>> >>
  /\ call.last_action # << >>
  /\ LastAction.step = step_id_root
  /\ current_step = << step_id_root >>

\* ------------------------------------------------------------------------
\* C32: when a dfs.next call returned a gating error and the next call gets
\* checks of the same outcomes, that call fails on the same check of the
\* same step with the same error and leaves the stack and the direction as
\* the first failing call left them.
\* ------------------------------------------------------------------------
CalledAgainAfterFailure ==
  /\ "pushed" \in DOMAIN harness
  /\ harness.prev = "Err"
  /\ harness.same_denies

C32_FailedCallIsFixpoint ==
  CalledAgainAfterFailure =>
    /\ harness.last = "Err"
    /\ harness.last_err = harness.prev_err
    /\ harness.failed = harness.prev_failed
    /\ harness.failed # << >>
    /\ stack = harness.before.stack
    /\ next_direction = harness.before.next_direction
    /\ next_direction # "Done"

\* the entry of a first substep was denied twice in a row while the cursor
\* was going down
C32_Witness ==
  /\ CalledAgainAfterFailure
  /\ harness.last = "Err"
  /\ harness.failed # << >>
  /\ harness.failed[1][1] = "enter"
  /\ next_direction = "Down"
  /\ Len(stack) >= 2

\* ------------------------------------------------------------------------
\* C33: whenever dfs.next returns Ok(Some(s)), s is the top of the stack,
\* s has no substeps and the direction is SiblingOrUp; after a call, a step
\* with substeps is on top of the stack only when that call failed.
\* ------------------------------------------------------------------------
CursorCalled == "pushed" \in DOMAIN harness /\ harness.calls > 0

HasSubsteps(step_id) == first_child_of(step_id) # << >>

C33_SuccessfulResultIsLeaf ==
  CursorCalled =>
    /\ harness.last = "Some" =>
         /\ harness.last_step = current(stack)
         /\ stack # << >>
         /\ ~HasSubsteps(stack[Len(stack)])
         /\ next_direction = "SiblingOrUp"
    /\ (stack # << >> /\ HasSubsteps(stack[Len(stack)])) =>
         /\ harness.last = "Err"
         /\ harness.failed # << >>
         /\ IF harness.failed[1][1] = "exit"
            THEN harness.failed[1][2] = stack[Len(stack)]
            ELSE \/ first_child_of(stack[Len(stack)]) = << harness.failed[1][2] >>
                 \/ next_sibling_of_current(stack) = << harness.failed[1][2] >>

\* a call returned a step two levels below the root
C33_Witness ==
  /\ CursorCalled
  /\ harness.last = "Some"
  /\ Len(stack) = 3
  /\ harness.last_step = << stack[3] >>
  /\ HasSubsteps(stack[2])

\* ------------------------------------------------------------------------
\* C34: set_action_for_step fails with StepId(IdAlreadyExists(step)) when
\* the step, or for None the generic sentinel, already has an action, and
\* the action map is left as it was; when it succeeds only the mapping of
\* that one step changes; a step never has more than one action.
\* ------------------------------------------------------------------------
SetActionCalled == "set_action" \in DOMAIN harness /\ harness.last # << >>

SetActionStep ==
  IF harness.last[1].step_id = << >> THEN step_id_all
  ELSE harness.last[1].step_id[1]

C34_OneActionPerStep ==
  SetActionCalled =>
    IF SetActionStep \in DOMAIN harness.last[1].before
    THEN /\ harness.last[1].res = ErrStepId("IdAlreadyExists", SetActionStep)
         /\ actions = harness.last[1].before
    ELSE /\ harness.last[1].res = Ok
         /\ DOMAIN actions = DOMAIN harness.last[1].before \cup {SetActionStep}
         /\ actions[SetActionStep] = harness.last[1].action_id
         /\ \A s \in DOMAIN harness.last[1].before :
              actions[s] = harness.last[1].before[s]

\* a second generic action was refused and the first one stays in place
C34_Witness ==
  /\ SetActionCalled
  /\ harness.last[1].step_id = << >>
  /\ harness.last[1].action_id = specific_action_id
  /\ harness.last[1].res = ErrStepId("IdAlreadyExists", step_id_all)
  /\ actions[step_id_all] = generic_action_id

\* ------------------------------------------------------------------------
\* C35: after any sequence of dfs.next calls on a fixed tree, whatever the
\* gating checks answer, the stack is empty or a path from the root (its
\* first element is the root and every other element is a substep of the
\* element below it), and the stack is empty exactly when the direction is
\* Done.
\* ------------------------------------------------------------------------
SubstepsOf(step_id) ==
  {step_store[step_id].substep_step_ids[i] :
     i \in 1..Len(step_store[step_id].substep_step_ids)}

IsPathFromRoot(st) ==
  /\ st # << >>
  /\ st[1] = step_id_root
  /\ \A i \in 1..(Len(st) - 1) : st[i + 1] \in SubstepsOf(st[i])

C35_CursorStructure ==
  "pushed" \in DOMAIN harness =>
    /\ stack = << >> \/ IsPathFromRoot(stack)
    /\ stack = << >> <=> next_direction = "Done"
    /\ next_direction \in {"Down", "SiblingOrUp", "Done"}

\* after a failed call the stack is a path of three steps
C35_Witness ==
  /\ CursorCalled
  /\ harness.last = "Err"
  /\ Len(stack) = 3
  /\ IsPathFromRoot(stack)
  /\ next_direction = "SiblingOrUp"

\* ------------------------------------------------------------------------
\* C36: over any sequence of dfs.next calls on a tree, with gating checks
\* failing and later passing in any pattern, every step is put on the stack
\* at most once, a step that left the stack is never put on it again, and
\* the steps are put on the stack in pre-order.
\* ------------------------------------------------------------------------
\* the steps at and below step s in pre-order, by the textbook recursion
RECURSIVE Preorder(_)
RECURSIVE PreorderOf(_)
Preorder(s) == <<s>> \o PreorderOf(step_store[s].substep_step_ids)
PreorderOf(q) ==
  IF q = << >> THEN << >>
  ELSE Preorder(Head(q)) \o PreorderOf(Tail(q))

C36_CursorNeverGoesBack ==
  "pushed" \in DOMAIN harness =>
    /\ \A i, j \in 1..Len(harness.pushed) :
         harness.pushed[i] = harness.pushed[j] => i = j
    /\ IsPrefix(harness.pushed, Preorder(step_id_root))
    /\ \A i \in 1..Len(stack) : \E j \in 1..Len(harness.pushed) :
         harness.pushed[j] = stack[i]
    /\ \A i \in 1..Len(harness.before.stack) :
         (\A j \in 1..Len(stack) : stack[j] # harness.before.stack[i]) =>
           (\A k \in 1..Len(PushedBy(harness.before.stack, stack)) :
              PushedBy(harness.before.stack, stack)[k] # harness.before.stack[i])
    /\ next_direction = "Done" => harness.pushed = Preorder(step_id_root)

\* every one of four steps was put on the stack once, a call failed on the
\* exit check of the root, and the call after it found the cursor done
C36_Witness ==
  /\ CursorCalled
  /\ harness.prev = "Err"
  /\ harness.last = "None"
  /\ next_direction = "Done"
  /\ Len(harness.pushed) = 4
  /\ harness.pushed = Preorder(step_id_root)

\* ------------------------------------------------------------------------
\* C37: over any sequence of advance calls, with or without supplied
\* output and whatever the actions return, no variable identity ever leaves
\* the session's StateData, and the StateData changes only by the merge of
\* caller-supplied output naming the current step or by the merge of the
\* accepted Finished data of an action.
\* ------------------------------------------------------------------------
CallerOutputMerged ==
  /\ state.tag = "AdvanceStep"
  /\ step_output # << >>
  /\ current_step = << step_output[1].step_id >>
  /\ state_data' = merge_from(state_data, step_output[1].data)

FinishedDataMerged ==
  /\ state.tag \in {"StartSpecific", "StartGeneric"}
  /\ call'.last_action # << >>
  /\ call'.last_action[1].res = "Finished"
  /\ call'.last_action[1].step = state.step_id[1]
  /\ contains_only(call'.last_action[1].data, OutputsOf(state.step_id[1]))
  /\ state_data' = merge_from(state_data, call'.last_action[1].data)

C37_StepGrows ==
  /\ DOMAIN state_data \subseteq DOMAIN state_data'
  /\ state_data' # state_data => (CallerOutputMerged \/ FinishedDataMerged)

C37_StateDataOnlyGrows == [][C37_StepGrows]_vars

\* a call merged the caller's output and then the Finished data of an
\* action: the StateData holds an entry of each
C37_Witness ==
  /\ call.arg # << >>
  /\ call.action_keys # {}
  /\ \E k \in DOMAIN state_data : state_data[k] = 1 /\ k \notin DOMAIN call.data0
  /\ \E k \in DOMAIN state_data : state_data[k] = 2 /\ k \notin DOMAIN call.data0

\* ------------------------------------------------------------------------
\* C38: in every StateData reachable through new, insert, from_vals and
\* merge_from, the ValidVal stored under identity k records k as the
\* identity of the Var that validated it, and the kind of its value is the
\* kind a Var of that identity declared.
\* ------------------------------------------------------------------------
KeyedByValidator(data) ==
  \A k \in DOMAIN data :
    /\ data[k].validated_by = k
    /\ \E var \in DataVars :
         /\ var.id = k
         /\ data[k].val.kind = valuetype(var.kind)

C38_KeyedByValidator ==
  "a" \in DOMAIN harness =>
    /\ KeyedByValidator(harness.a)
    /\ KeyedByValidator(harness.b)
    /\ \A pairs \in DataPairs :
         StateData_from_vals(pairs).ok => KeyedByValidator(StateData_from_vals(pairs).data)

\* a StateData built by from_vals was merged into one built by insert, and
\* holds the values of two Vars
C38_Witness ==
  /\ "a" \in DOMAIN harness
  /\ harness.last = [op |-> "merge_from", ok |-> TRUE, on_a |-> TRUE]
  /\ DOMAIN harness.a = {1, 2}
  /\ DOMAIN harness.b = {2}
  /\ harness.a[2].val.kind = "BoolValue"
  /\ harness.a[1].val.kind = "StringValue"

\* ------------------------------------------------------------------------
\* C39: after any sequence of ObjectStore calls, successful or failed,
\* every name of the store maps to an identity that has a stored object, no
\* identity has more than one name, and no call removes a stored object or a
\* name or makes a name map to another identity.
\* ------------------------------------------------------------------------
NameIndexConsistent(store) ==
  /\ \A n \in DOMAIN store.name_to_id :
       store.name_to_id[n] \in DOMAIN store.id_to_object
  /\ \A n, m \in DOMAIN store.name_to_id :
       store.name_to_id[n] = store.name_to_id[m] => n = m

KeptFrom(before, store) ==
  /\ \A i \in DOMAIN before.id_to_object :
       /\ i \in DOMAIN store.id_to_object
       /\ store.id_to_object[i] = before.id_to_object[i]
  /\ \A n \in DOMAIN before.name_to_id :
       /\ n \in DOMAIN store.name_to_id
       /\ store.name_to_id[n] = before.name_to_id[n]

C39_NameIndexConsistency ==
  "store" \in DOMAIN harness =>
    /\ NameIndexConsistent(harness.store)
    /\ "before" \in DOMAIN harness.last => KeptFrom(harness.last.before, harness.store)

\* the store holds a named object and at least one more object, and the
\* last call, a register_named with a fresh name for an identity already
\* stored, failed and added no name
C39_Witness ==
  /\ "store" \in DOMAIN harness
  /\ harness.last.op = "register_named"
  /\ harness.last.res.e = "IdAlreadyExists"
  /\ harness.last.name \notin DOMAIN harness.store.name_to_id
  /\ Cardinality(DOMAIN harness.store.name_to_id) = 1
  /\ Cardinality(DOMAIN harness.store.id_to_object) >= 2

\* ------------------------------------------------------------------------
\* C40: when the action started for a step returns an error, or a Finished
\* result that the output-shape check rejects, advance returns that error
\* with StateData as it was before the action; the cursor stays on the
\* step it was moved to, so that the next cursor call starts with the exit
\* check of that step.
\* ------------------------------------------------------------------------
ActionFailed ==
  /\ call.last_action # << >>
  /\ \/ LastAction.res = "Err"
     \/ /\ LastAction.res = "Finished"
        /\ ~contains_only(LastAction.data, OutputsOf(LastAction.step))

====
